---- MODULE Spec2Model ----
(***************************************************************************)
(* A model of the judicial reasoning pipeline of the dadyar repository:    *)
(* the provider clients (response cache + retry loop), the module-level    *)
(* singletons, the reasoning orchestrator, the reasoning-graph builder and *)
(* the analysis view that drives them.                                     *)
(*                                                                         *)
(* Python values: None is the string "None"; a text is a string; a string  *)
(* that the code concatenates or searches is a sequence of tokens.         *)
(***************************************************************************)
EXTENDS Integers, Sequences, FiniteSets, TLC

VARIABLES
    \* ---- provider clients (openai_client.py, gemini_client.py, base_client.py)
    settingsModel,  \* settings.OPENAI_MODEL of the running process
    active,         \* the client object that serves get_completion: [backend, model]
    memCache,       \* OpenAIClient._cache and LLMClient._cache, by backend
    diskCache,      \* data/openai_cache.json and data/llm_cache.json, by backend
    cpc,            \* position of get_completion: "idle" or "retry" (inside the loop)
    cur,            \* the request being served
    attempt,        \* loop variable of the retry loop inside get_completion
    last,           \* the last call the serving client completed
    before,         \* the call completed before `last`, when it was the same request
    \* ---- one run of the retry loop, seen from its caller
    rBackend,       \* whose loop: LLMClient._retry_with_backoff ("gemini") or
                    \* the loop inside OpenAIClient.get_completion ("openai")
    rState,         \* "running", "returned" or "raised"
    rAttempt,       \* loop variable
    rLog,           \* what each invocation of func() did, in order
    rWaits,         \* every time.sleep() of the run, in seconds
    rResult,        \* the value returned
    \* ---- a ReasoningGraph object (reasoning_graph.py)
    reasoning_result,   \* the argument of build_from_reasoning
    graph,              \* self.graph
    node_counter,       \* self.node_counter
    \* ---- one user session of the analysis view (analysis_view.py)
    ppc,            \* position of perform_analysis / analyze_case
    pCase,          \* case_data['case_id'] of the run
    pDescription,   \* case_data['description'] of the run
    pStoredFor,     \* per stored entry: the description its run was given
    pDone,          \* the stages the current run has gone through
    pEntities,      \* entities (local of perform_analysis)
    pArticles,      \* articles (local of analyze_case)
    pIndex,         \* loop index of `for i, article in enumerate(articles, 1)`
    pSteps,         \* reasoning_steps (local of analyze_case)
    pAnalyses,      \* article_analyses (local of analyze_case)
    pResult,        \* reasoning_result (local of perform_analysis)
    pGraph,         \* graph (local of perform_analysis)
    pVerdict,       \* verdict (local of perform_analysis)
    pRequests,      \* every get_completion the run has issued, with its answer
    session_state,  \* st.session_state, the analysis entries
    \* ---- module-level singletons (client_factory.py and the get_* functions)
    instances,      \* the module globals that hold the singletons
    kbResource,     \* what st.cache_resource memoises for get_knowledge_base
    nextId,         \* identity of the next object built
    atReset,        \* per component: the instance that existed at the last reset
    afterReset,     \* per component: what its first access after the reset returned
    \* ---- one call of get_related_articles on a knowledge base (knowledge_base.py)
    kbArticles,     \* self.articles, the corpus in file order
    article_num,    \* the argument: the start provision
    depth,          \* the argument
    visited,        \* local
    queue,          \* local: (number, depth) pairs
    results,        \* local
    kpc,            \* "loop" while the while loop runs, "done" after the return
    \* ---- a LegalKnowledgeBase and the retrievals of one query on it (knowledge_base.py)
    qFile,          \* data/legal_articles.json
    qTopK,          \* the argument top_k of the calls
    qUseHybrid,     \* the argument use_hybrid of the calls
    qKb,            \* the object: self.articles, self.embeddings, self.index
    qpc,            \* "new" before the constructor ran, then "ready" or "raised"
    qLast,          \* the last call of retrieve_relevant_articles and its outcome
    qEarlier,        \* the call before qLast that last returned provisions of the index
    \* ---- one call of _extract_confidence (reasoning_engine.py)
    xText,          \* the argument: a text, its lines
    xConfidence,     \* the value returned, in hundredths; -1 before the return
    \* ---- one call of _parse_verdict (verdict_generator.py)
    vText,          \* the argument verdict_text, its lines
    vVerdict,        \* the Verdict returned
    \* ---- the provider selection of the session and get_llm_client (client_factory.py)
    ai_provider,    \* st.session_state["ai_provider"]
    ai_model,       \* st.session_state["ai_model"]
    clients,        \* the clients _build_client has built, by identity
    fLast,          \* the last call of get_llm_client and its outcome
    fPrev,           \* the call before it
    \* ---- calls of _cache_key (base_client.py, openai_client.py)
    keyed,           \* the requests keyed so far, each with its key string
    apc,                \* main: the tab the script run has reached
    case_counter,       \* st.session_state.case_counter
    current_case,       \* st.session_state.current_case
    current_case_graph, \* st.session_state.current_case_graph
    displayed,          \* what the analysis tab last displayed, and for which case
    tabGraph            \* what the graph tab last did

clientVars == <<settingsModel, active, memCache, diskCache, cpc, cur, attempt,
                last, before>>
retryVars == <<rBackend, rState, rAttempt, rLog, rWaits, rResult>>
graphVars == <<reasoning_result, graph, node_counter>>
pipelineVars == <<ppc, pCase, pDescription, pStoredFor, pDone, pEntities, pArticles, pIndex, pSteps, pAnalyses, pResult,
                  pGraph, pVerdict, pRequests, session_state>>
singletonVars == <<instances, kbResource, nextId, atReset, afterReset>>

relatedVars == <<kbArticles, article_num, depth, visited, queue, results, kpc>>
retrievalVars == <<qFile, qTopK, qUseHybrid, qKb, qpc, qLast, qEarlier>>
classifierVars == <<xText, xConfidence>>
verdictVars == <<vText, vVerdict>>
factoryVars == <<ai_provider, ai_model, clients, fLast, fPrev>>
keyVars == <<keyed>>
appVars == <<apc, case_counter, current_case, current_case_graph, displayed, tabGraph>>

vars == <<clientVars, retryVars, graphVars, pipelineVars, singletonVars, relatedVars, retrievalVars, classifierVars, verdictVars, factoryVars, keyVars, appVars>>

\* everything but one group
exceptClient == <<retryVars, graphVars, pipelineVars, singletonVars, relatedVars, retrievalVars, classifierVars, verdictVars, factoryVars, keyVars, appVars>>
exceptRetry == <<clientVars, graphVars, pipelineVars, singletonVars, relatedVars, retrievalVars, classifierVars, verdictVars, factoryVars, keyVars, appVars>>
exceptGraph == <<clientVars, retryVars, pipelineVars, singletonVars, relatedVars, retrievalVars, classifierVars, verdictVars, factoryVars, keyVars, appVars>>
exceptPipeline == <<clientVars, retryVars, graphVars, singletonVars, relatedVars, retrievalVars, classifierVars, verdictVars, factoryVars, keyVars, appVars>>
exceptSingletons == <<clientVars, retryVars, graphVars, pipelineVars, relatedVars, retrievalVars, classifierVars, verdictVars, factoryVars, keyVars, appVars>>
exceptRelated == <<clientVars, retryVars, graphVars, pipelineVars, singletonVars, retrievalVars, classifierVars, verdictVars, factoryVars, keyVars, appVars>>
exceptRetrieval == <<clientVars, retryVars, graphVars, pipelineVars, singletonVars, relatedVars, classifierVars, verdictVars, factoryVars, keyVars, appVars>>
exceptClassifier == <<clientVars, retryVars, graphVars, pipelineVars, singletonVars, relatedVars, retrievalVars, verdictVars, factoryVars, keyVars, appVars>>
exceptVerdict == <<clientVars, retryVars, graphVars, pipelineVars, singletonVars, relatedVars, retrievalVars, classifierVars, factoryVars, keyVars, appVars>>
exceptFactory == <<clientVars, retryVars, graphVars, pipelineVars, relatedVars, retrievalVars, classifierVars, verdictVars, keyVars, appVars>>
exceptKeys == <<clientVars, retryVars, graphVars, pipelineVars, singletonVars, relatedVars, retrievalVars, classifierVars, verdictVars, factoryVars, appVars>>
exceptApp == <<clientVars, retryVars, graphVars, singletonVars, relatedVars, retrievalVars, classifierVars, verdictVars, factoryVars, keyVars>>

None == "None"

\* a float the code computes with is an exact fraction num/den
Frac(n, d) == [num |-> n, den |-> d]

FracLeq(a, b) == a.num * b.den <= b.num * a.den

FracEq(a, b) == a.num * b.den = b.num * a.den

\* str.lower() of one word; words without cased letters are left alone
LowerWord(w) ==
    CASE w = "K1" -> "k1"
      [] w = "K2" -> "k2"
      [] OTHER -> w

-----------------------------------------------------------------------------
(* Bounds and input domains                                                *)

NumTexts == 2

TextNames == <<"t1", "t2", "t3">>

\* a prompt is a string: a sequence of tokens
Prompts == {<<"p1">>}
Texts == {TextNames[i] : i \in 1..NumTexts}
Backends == {"openai", "gemini"}
Models == {"m1", "m2"}

\* temperature / max_tokens as the callers pass them (reasoning_engine.py:221,
\* verdict_generator.py:81): a decimal literal or None
Temperatures == {None, "0.3"}
MaxTokens == {None}

-----------------------------------------------------------------------------
(* Settings                                                                *)

OPENAI_TEMPERATURE == "0.3"
OPENAI_MAX_TOKENS == "2000"
max_retries == 3

-----------------------------------------------------------------------------
(* Cache keys                                                              *)

\* f"{a}_{b}": concatenation with a "_" token in between
Join(a, b) == a \o <<"_">> \o b

\* LLMClient._cache_key: the string that is hashed
LLMClientCacheKey(provider, model, prompt, temperature, max_tokens) ==
    Join(Join(Join(Join(<<provider>>, <<model>>), prompt), <<temperature>>), <<max_tokens>>)

\* OpenAIClient._cache_key
OpenAIClientCacheKey(provider, model, prompt, temperature, max_tokens) ==
    Join(Join(prompt, <<temperature>>), <<max_tokens>>)

CacheKey(client, prompt, temperature, max_tokens) ==
    IF client.backend = "gemini"
    THEN LLMClientCacheKey("gemini", client.model, prompt, temperature, max_tokens)
    ELSE OpenAIClientCacheKey("openai", client.model, prompt, temperature, max_tokens)

\* temperature = temperature or settings.OPENAI_TEMPERATURE   (openai)
\* temperature if temperature is not None else ...            (gemini)
Falsy(v) == v \in {None, "0", "0.0", ""}

EffectiveTemperature(backend, temperature) ==
    IF backend = "gemini"
    THEN (IF temperature = None THEN OPENAI_TEMPERATURE ELSE temperature)
    ELSE (IF Falsy(temperature) THEN OPENAI_TEMPERATURE ELSE temperature)

EffectiveMaxTokens(max_tokens) ==
    IF Falsy(max_tokens) THEN OPENAI_MAX_TOKENS ELSE max_tokens

RequestKey(client, prompt, temperature, max_tokens) ==
    CacheKey(client, prompt, EffectiveTemperature(client.backend, temperature),
             EffectiveMaxTokens(max_tokens))

EmptyCache == [k \in {} |-> None]

\* the arguments of one _cache_key call and the client it is called on
KeyRequests ==
    [client : [backend : Backends, model : Models],
     prompt : {<<"p1">>, <<"p1", "_", "0.3">>},
     temperature : {"0.3", "0.7"},
     max_tokens : {"2000", "500"}]

\* self._cache_key(prompt, temperature=temperature, max_tokens=max_tokens)
CacheKeyCall(request) ==
    /\ Len(keyed) < 2
    /\ keyed' = Append(keyed, [request |-> request,
                               key |-> CacheKey(request.client, request.prompt,
                                                request.temperature, request.max_tokens)])
    /\ UNCHANGED exceptKeys

KeysInit == keyed = <<>>

KeysIdle == keyed = <<>>

\* mutant: the lookup never finds the entry
CacheHitNever(cache, key) == FALSE

\* `cache_key in self._cache`
CacheHit(cache, key) == key \in DOMAIN cache

\* self._cache[cache_key] = result; `by` (not stored by the code) remembers the
\* model whose provider produced the text
CachePut(cache, key, result, by) == (key :> [text |-> result, by |-> by]) @@ cache

\* _load_cache: the file's content replaces the in-memory cache when it exists
LoadCache(file, cache) == IF file.exists THEN file.data ELSE cache

NoFile == [exists |-> FALSE, data |-> EmptyCache]

-----------------------------------------------------------------------------
(* What one invocation of the provider can do                              *)

\* an exception message is a sequence of words
RateLimitMessages == {<<"rate", "limit">>, <<"429", "RESOURCE_EXHAUSTED">>,
                      <<"Quota", "exceeded">>}

Outcomes ==
    {[kind |-> "text", text |-> t, msg |-> <<>>] : t \in Texts \cup {None}}
    \cup {[kind |-> "rate", text |-> None, msg |-> m] : m \in RateLimitMessages}
    \cup {[kind |-> "api", text |-> None, msg |-> <<>>],
          [kind |-> "other", text |-> None, msg |-> <<>>]}

\* str.lower(), word by word
Lower(w) ==
    CASE w = "RESOURCE_EXHAUSTED" -> "resource_exhausted"
      [] w = "Quota" -> "quota"
      [] OTHER -> w

Contains(msg, needle) == \E i \in 1..Len(msg) : Lower(msg[i]) = needle

\* mutant: only the first needle is looked for
IsQuotaExhaustedFirstNeedle(msg) == Contains(msg, "resource_exhausted")

\* "resource_exhausted" in err_msg or "quota" in err_msg
IsQuotaExhausted(msg) == Contains(msg, "resource_exhausted") \/ Contains(msg, "quota")

Pow2(n) == IF n = 0 THEN 1 ELSE IF n = 1 THEN 2 ELSE IF n = 2 THEN 4 ELSE 8

\* wait_time of the rate-limit handler
RateLimitWait(backend, a) == IF backend = "gemini" THEN Pow2(a) + 1 ELSE Pow2(a)

\* the sleep of the api-error handler
ApiErrorWait(a) == Pow2(a)

\* whether the rate-limit handler gives up at once
RateLimitIsTerminal(backend, msg) == backend = "gemini" /\ IsQuotaExhausted(msg)

\* `if result and use_cache` (gemini) / `if use_cache` (openai), use_cache = True
WritesThrough(backend, result) == IF backend = "gemini" THEN ~Falsy(result) ELSE TRUE

\* except rate_limit_exceptions: give up (quota), or sleep and go on; the loop
\* ends after the last attempt
RateLimitHandler(backend, a, msg) ==
    IF RateLimitIsTerminal(backend, msg)
    THEN [finished |-> TRUE, sleeps |-> <<>>]
    ELSE [finished |-> a + 1 >= max_retries, sleeps |-> <<RateLimitWait(backend, a)>>]

\* mutant: the handler never gives up
ApiErrorHandlerNoCeiling(a) == [finished |-> FALSE, sleeps |-> <<ApiErrorWait(a)>>]

\* except api_exceptions: give up on the last attempt, else sleep and go on
ApiErrorHandler(a) ==
    IF a = max_retries - 1
    THEN [finished |-> TRUE, sleeps |-> <<>>]
    ELSE [finished |-> FALSE, sleeps |-> <<ApiErrorWait(a)>>]

\* mutant: no `except Exception` clause
UnexpectedEscapes == TRUE

\* except Exception: return None; the exception does not reach the caller
UnexpectedPropagates == FALSE

-----------------------------------------------------------------------------
(* The retry loop, one run of it under an arbitrary func()                 *)

RetryFinish(state, result) ==
    /\ rState' = state
    /\ rResult' = result
    /\ UNCHANGED rAttempt

RetryStep(handled) ==
    IF handled.finished
    THEN RetryFinish("returned", None)
    ELSE /\ rAttempt' = rAttempt + 1
         /\ UNCHANGED <<rState, rResult>>

\* func() returns
RetryReturns(o) ==
    /\ rState = "running"
    /\ o.kind = "text"
    /\ rLog' = Append(rLog, o)
    /\ RetryFinish("returned", o.text)
    /\ UNCHANGED <<rBackend, rWaits, exceptRetry>>

\* func() raises a rate-limit exception
RetryRateLimited(o) ==
    /\ rState = "running"
    /\ o.kind = "rate"
    /\ rLog' = Append(rLog, o)
    /\ LET handled == RateLimitHandler(rBackend, rAttempt, o.msg)
       IN  /\ rWaits' = rWaits \o handled.sleeps
           /\ RetryStep(handled)
    /\ UNCHANGED <<rBackend, exceptRetry>>

\* func() raises a generic API error
RetryApiError(o) ==
    /\ rState = "running"
    /\ o.kind = "api"
    /\ rLog' = Append(rLog, o)
    /\ LET handled == ApiErrorHandler(rAttempt)
       IN  /\ rWaits' = rWaits \o handled.sleeps
           /\ RetryStep(handled)
    /\ UNCHANGED <<rBackend, exceptRetry>>

\* func() raises any other exception
RetryUnexpected(o) ==
    /\ rState = "running"
    /\ o.kind = "other"
    /\ rLog' = Append(rLog, o)
    /\ RetryFinish(IF UnexpectedPropagates THEN "raised" ELSE "returned", None)
    /\ UNCHANGED <<rBackend, rWaits, exceptRetry>>

\* the next call of the wrapper: `for attempt in range(max_retries)` starts over
RetryCall(b) ==
    /\ rState # "running"
    /\ rBackend' = b
    /\ rState' = "running"
    /\ rAttempt' = 0
    /\ rLog' = <<>>
    /\ rWaits' = <<>>
    /\ rResult' = None
    /\ UNCHANGED exceptRetry

RetryInit ==
    /\ rBackend \in Backends
    /\ rState = "running"
    /\ rAttempt = 0
    /\ rLog = <<>>
    /\ rWaits = <<>>
    /\ rResult = None

RetryIdle ==
    /\ rBackend = "openai"
    /\ rState = "returned"
    /\ rAttempt = 0
    /\ rLog = <<>>
    /\ rWaits = <<>>
    /\ rResult = None

-----------------------------------------------------------------------------
(* get_completion: defaults, cache lookup, retry loop, write-through       *)

NoRequest == [prompt |-> <<>>, temperature |-> None, max_tokens |-> None, key |-> <<>>]

NoCall == [done |-> FALSE, backend |-> None, model |-> None, prompt |-> <<>>,
           temperature |-> None, max_tokens |-> None, result |-> None, calls |-> 0,
           source |-> None]

NoBefore == [same |-> FALSE, result |-> None, calls |-> 0]

SameRequest(call, client, request) ==
    /\ call.done
    /\ call.backend = client.backend /\ call.model = client.model
    /\ call.prompt = request.prompt
    /\ call.temperature = request.temperature
    /\ call.max_tokens = request.max_tokens

\* the call returns `result` after `calls` invocations of the provider; `source` is
\* the model whose provider produced the text
FinishCall(request, result, calls, source) ==
    /\ cpc' = "idle"
    /\ last' = [done |-> TRUE, backend |-> active.backend, model |-> active.model,
                prompt |-> request.prompt, temperature |-> request.temperature,
                max_tokens |-> request.max_tokens, result |-> result, calls |-> calls,
                source |-> source]
    /\ before' = IF SameRequest(last, active, request)
                 THEN [same |-> TRUE, result |-> last.result, calls |-> last.calls]
                 ELSE NoBefore
    /\ cur' = NoRequest
    /\ attempt' = 0

\* after a handled exception: the next attempt, or return None
AfterException(handled) ==
    IF handled.finished
    THEN FinishCall(cur, None, attempt + 1, None)
    ELSE /\ attempt' = attempt + 1
         /\ UNCHANGED <<cpc, cur, last, before>>

\* get_completion up to the first invocation
GetCompletion(prompt, temperature, max_tokens) ==
    /\ cpc = "idle"
    /\ LET key == RequestKey(active, prompt, temperature, max_tokens)
           request == [prompt |-> prompt, temperature |-> temperature,
                       max_tokens |-> max_tokens, key |-> key]
       IN  IF CacheHit(memCache[active.backend], key)
           THEN FinishCall(request, memCache[active.backend][key].text, 0,
                           memCache[active.backend][key].by)
           ELSE /\ cpc' = "retry"
                /\ cur' = request
                /\ attempt' = 0
                /\ UNCHANGED <<last, before>>
    /\ UNCHANGED <<settingsModel, active, memCache, diskCache, exceptClient>>

\* _save_cache: the file is rewritten with the in-memory cache (a failed write is
\* swallowed and leaves the file as it was)
SaveCache(disk, backend, cache) ==
    [disk EXCEPT ![backend] = [exists |-> TRUE, data |-> cache]]

\* the invocation returns: response.text / response.choices[0].message.content
AttemptReturns(o) ==
    /\ cpc = "retry"
    /\ o.kind = "text"
    /\ IF WritesThrough(active.backend, o.text)
       THEN /\ memCache' = [memCache EXCEPT ![active.backend] =
                               CachePut(@, cur.key, o.text, active.model)]
            /\ \E saved \in BOOLEAN :
                 diskCache' = IF saved
                              THEN SaveCache(diskCache, active.backend,
                                             memCache'[active.backend])
                              ELSE diskCache
       ELSE UNCHANGED <<memCache, diskCache>>
    /\ FinishCall(cur, o.text, attempt + 1, active.model)
    /\ UNCHANGED <<settingsModel, active, exceptClient>>

\* the invocation raises a rate-limit exception
AttemptRateLimited(o) ==
    /\ cpc = "retry"
    /\ o.kind = "rate"
    /\ AfterException(RateLimitHandler(active.backend, attempt, o.msg))
    /\ UNCHANGED <<settingsModel, active, memCache, diskCache, exceptClient>>

\* the invocation raises a generic API error
AttemptApiError(o) ==
    /\ cpc = "retry"
    /\ o.kind = "api"
    /\ AfterException(ApiErrorHandler(attempt))
    /\ UNCHANGED <<settingsModel, active, memCache, diskCache, exceptClient>>

\* the invocation raises any other exception
AttemptUnexpected(o) ==
    /\ cpc = "retry"
    /\ o.kind = "other"
    /\ FinishCall(cur, None, attempt + 1, None)
    /\ UNCHANGED <<settingsModel, active, memCache, diskCache, exceptClient>>

-----------------------------------------------------------------------------
(* Which client serves the calls                                           *)

\* get_openai_client(): the process-wide OpenAIClient, model from the settings
GetOpenAIClient ==
    /\ cpc = "idle"
    /\ active' = [backend |-> "openai", model |-> settingsModel]
    /\ last' = NoCall
    /\ before' = NoBefore
    /\ UNCHANGED <<settingsModel, memCache, diskCache, cpc, cur, attempt, exceptClient>>

\* GeminiClient(model=m): LLMClient.__init__ reloads the cache file
BuildGeminiClient(m) ==
    /\ cpc = "idle"
    /\ active' = [backend |-> "gemini", model |-> m]
    /\ memCache' = [memCache EXCEPT !["gemini"] = LoadCache(diskCache["gemini"], @)]
    /\ last' = NoCall
    /\ before' = NoBefore
    /\ UNCHANGED <<settingsModel, diskCache, cpc, cur, attempt, exceptClient>>

\* the process is started again with OPENAI_MODEL = m: the class-level caches
\* start empty and OpenAIClient.__init__ loads its cache file
Restart(m) ==
    /\ cpc = "idle"
    /\ settingsModel' = m
    /\ active' = [backend |-> "openai", model |-> m]
    /\ memCache' = [b \in Backends |->
                      IF b = "openai" THEN LoadCache(diskCache[b], EmptyCache)
                      ELSE EmptyCache]
    /\ last' = NoCall
    /\ before' = NoBefore
    /\ UNCHANGED <<diskCache, cpc, cur, attempt, exceptClient>>

ClientInit ==
    /\ settingsModel \in Models
    /\ active = [backend |-> "openai", model |-> settingsModel]
    /\ memCache = [b \in Backends |-> EmptyCache]
    /\ diskCache = [b \in Backends |-> NoFile]
    /\ cpc = "idle"
    /\ cur = NoRequest
    /\ attempt = 0
    /\ last = NoCall
    /\ before = NoBefore

ClientIdle ==
    /\ settingsModel = "m1"
    /\ active = [backend |-> "openai", model |-> "m1"]
    /\ memCache = [b \in Backends |-> EmptyCache]
    /\ diskCache = [b \in Backends |-> NoFile]
    /\ cpc = "idle"
    /\ cur = NoRequest
    /\ attempt = 0
    /\ last = NoCall
    /\ before = NoBefore

-----------------------------------------------------------------------------
(* ReasoningResult and the reasoning graph (reasoning_graph.py)            *)

MaxSteps == 4
MaxDeductions == 2

StepTypes == {"FACT", "ARTICLE", "DEDUCTION", "VERDICT"}

\* ReasoningStep(step_type, content, confidence, related_article); a confidence
\* is in hundredths, related_article 0 is None
ReasoningStep(step_type, content, confidence, related_article) ==
    [step_type |-> step_type, content |-> content, confidence |-> confidence,
     related_article |-> related_article]

RECURSIVE ArticleConfidences(_)
\* [s.confidence for s in reasoning_steps if s.step_type == "ARTICLE"]
ArticleConfidences(reasoning_steps) ==
    IF reasoning_steps = <<>> THEN <<>>
    ELSE (IF Head(reasoning_steps).step_type = "ARTICLE"
          THEN <<Head(reasoning_steps).confidence>> ELSE <<>>)
         \o ArticleConfidences(Tail(reasoning_steps))

RECURSIVE Sum(_)
Sum(numbers) == IF numbers = <<>> THEN 0 ELSE Head(numbers) + Sum(Tail(numbers))

\* mutant: the sum is divided by the number of steps of every type
OverallConfidenceOverAllSteps(reasoning_steps) ==
    IF ArticleConfidences(reasoning_steps) # <<>>
    THEN Frac(Sum(ArticleConfidences(reasoning_steps)), Len(reasoning_steps))
    ELSE Frac(50, 1)

\* sum(article_confidences) / len(article_confidences) if article_confidences else 0.5
OverallConfidence(reasoning_steps) ==
    IF ArticleConfidences(reasoning_steps) # <<>>
    THEN Frac(Sum(ArticleConfidences(reasoning_steps)), Len(ArticleConfidences(reasoning_steps)))
    ELSE Frac(50, 1)

\* ReasoningResult(reasoning_steps, deductions, overall_confidence); `some` is
\* FALSE for None
ReasoningResult(reasoning_steps, deductions, overall_confidence) ==
    [some |-> TRUE, reasoning_steps |-> reasoning_steps, deductions |-> deductions,
     overall_confidence |-> overall_confidence]

NoResult ==
    [some |-> FALSE, reasoning_steps |-> <<>>, deductions |-> <<>>,
     overall_confidence |-> Frac(0, 1)]

SeqsUpTo(S, n) == UNION {[1..k -> S] : k \in 0..n}

\* the results build_from_reasoning is exercised on
GraphInputs ==
    {ReasoningResult(steps, deductions, OverallConfidence(steps)) :
        steps \in SeqsUpTo({ReasoningStep(t, <<>>, 0, 0) : t \in StepTypes}, MaxSteps),
        deductions \in SeqsUpTo({<<"d">>}, MaxDeductions)}

\* nx.DiGraph(): nodes with their node_type attribute, and directed edges
NewDiGraph == [built |-> TRUE, nodes |-> [id \in {} |-> ""], edges |-> {}]

\* self.graph = None
NoGraph == [built |-> FALSE, nodes |-> [id \in {} |-> ""], edges |-> {}]

\* mutant: the counter is left out of the id
CreateNodeIdTypeOnly(counter, node_type) ==
    [node_counter |-> counter + 1, node_id |-> <<node_type, 0>>]

\* _create_node_id: self.node_counter += 1; f"{node_type}_{self.node_counter}"
CreateNodeId(counter, node_type) ==
    [node_counter |-> counter + 1, node_id |-> <<node_type, counter + 1>>]

\* graph.add_node(node_id, node_type=...): a node of that id is overwritten
AddNode(g, node_id, node_type) ==
    [g EXCEPT !.nodes = (node_id :> node_type) @@ @]

\* mutant: the edge is drawn the other way round
AddEdgeReversed(g, u, v) == [g EXCEPT !.edges = @ \cup {<<v, u>>}]

\* graph.add_edge(u, v); networkx adds an endpoint that is not yet a node
AddEdge(g, u, v) ==
    [g EXCEPT !.edges = @ \cup {<<u, v>>},
              !.nodes = [id \in {u, v} \ DOMAIN @ |-> ""] @@ @]

RECURSIVE ConnectAll(_, _, _)
\* for parent in parents: graph.add_edge(parent, node_id)
ConnectAll(g, parents, node_id) ==
    IF parents = <<>> THEN g
    ELSE ConnectAll(AddEdge(g, Head(parents), node_id), Tail(parents), node_id)

\* the state of the builder inside build_from_reasoning
Builder(g, counter, node_ids) == [graph |-> g, node_counter |-> counter, node_ids |-> node_ids]

\* one iteration of the for loops: create the id, add the node, connect it
AddLayerNode(b, node_type, parents) ==
    LET created == CreateNodeId(b.node_counter, node_type)
        g == ConnectAll(AddNode(b.graph, created.node_id, node_type), parents,
                        created.node_id)
    IN  Builder(g, created.node_counter, Append(b.node_ids, created.node_id))

RECURSIVE AddLayerNodes(_, _, _, _)
AddLayerNodes(b, node_type, n, parents) ==
    IF n = 0 THEN b
    ELSE AddLayerNodes(AddLayerNode(b, node_type, parents), node_type, n - 1, parents)

StepsOfType(steps, step_type) == SelectSeq(steps, LAMBDA s : s.step_type = step_type)

\* _add_fact_nodes
AddFactNodes(b, steps) ==
    AddLayerNodes(Builder(b.graph, b.node_counter, <<>>), "FACT",
                  Len(StepsOfType(steps, "FACT")), <<>>)

\* _add_article_nodes: every article node is connected from all fact nodes
AddArticleNodes(b, steps, fact_nodes) ==
    AddLayerNodes(Builder(b.graph, b.node_counter, <<>>), "ARTICLE",
                  Len(StepsOfType(steps, "ARTICLE")), fact_nodes)

\* _add_deduction_nodes: every deduction node is connected from all article nodes
AddDeductionNodes(b, deductions, article_nodes) ==
    AddLayerNodes(Builder(b.graph, b.node_counter, <<>>), "DEDUCTION",
                  Len(deductions), article_nodes)

\* _add_verdict_node: the verdict node is connected from all deduction nodes
AddVerdictNode(b, deduction_nodes) ==
    AddLayerNode(Builder(b.graph, b.node_counter, <<>>), "VERDICT", deduction_nodes)

\* build_from_reasoning as a function of its argument: the builder it leaves
BuildFromReasoning(rr) ==
    LET start == Builder(NewDiGraph, 0, <<>>)
        facts == AddFactNodes(start, rr.reasoning_steps)
        articles == AddArticleNodes(facts, rr.reasoning_steps, facts.node_ids)
        deductions == AddDeductionNodes(articles, rr.deductions, articles.node_ids)
    IN  AddVerdictNode(deductions, deductions.node_ids)

\* graph_builder.build_from_reasoning(reasoning_result) on a ReasoningGraph object
BuildGraph ==
    /\ reasoning_result.some
    /\ graph' = BuildFromReasoning(reasoning_result).graph
    /\ node_counter' = BuildFromReasoning(reasoning_result).node_counter
    /\ UNCHANGED <<reasoning_result, exceptGraph>>

\* ReasoningGraph(): self.graph = None, self.node_counter = 0; the result it is
\* about to be given
GraphInit ==
    /\ reasoning_result \in GraphInputs
    /\ graph = NoGraph
    /\ node_counter = 0

GraphIdle ==
    /\ reasoning_result = NoResult
    /\ graph = NoGraph
    /\ node_counter = 0

-----------------------------------------------------------------------------
(* _extract_confidence (reasoning_engine.py).  A marker is spelled as the  *)
(* transliterated words of the Persian phrase, with its spaces.            *)

MaxWords == 4

StrongMarkers == {<<"qatan">>, <<"hatman">>, <<"bedun", " ", "shak">>, <<"kamelan">>}

ModerateMarkers ==
    {<<"ehtemalan">>, <<"be", " ", "nazar", " ", "miresad">>, <<"mortabet", " ", "ast">>}

HedgingMarkers == {<<"momken", " ", "ast">>, <<"shayad">>, <<"mitavanad">>}

LowMarkers == {<<"namohtamal">>, <<"baid">>, <<"kamtar", " ", "mortabet">>}

\* kw in line: the marker is a run of the line
Occurs(kw, line) ==
    \E i \in 1..(Len(line) - Len(kw) + 1) : SubSeq(line, i, i + Len(kw) - 1) = kw

\* any(kw in text_lower for kw in markers); no marker holds a line break
AnyIn(markers, text) ==
    \E kw \in markers : \E l \in 1..Len(text) :
        Occurs(kw, [i \in 1..Len(text[l]) |-> LowerWord(text[l][i])])

\* mutant: the classes are tried from the last to the first
ExtractConfidenceLastFirst(text) ==
    IF AnyIn(LowMarkers, text) THEN 30
    ELSE IF AnyIn(HedgingMarkers, text) THEN 60
    ELSE IF AnyIn(ModerateMarkers, text) THEN 80
    ELSE IF AnyIn(StrongMarkers, text) THEN 95
    ELSE 70

ExtractConfidence(text) ==
    IF AnyIn(StrongMarkers, text) THEN 95
    ELSE IF AnyIn(ModerateMarkers, text) THEN 80
    ELSE IF AnyIn(HedgingMarkers, text) THEN 60
    ELSE IF AnyIn(LowMarkers, text) THEN 30
    ELSE 70

Vocabulary == {"qatan", "ehtemalan", "shayad", "baid", "kamtar", "mortabet", "ast", "a"}

RECURSIVE SpaceJoin(_)
\* the words of a one-line text, a space between neighbours
SpaceJoin(words) ==
    IF Len(words) <= 1 THEN words
    ELSE <<Head(words), " ">> \o SpaceJoin(Tail(words))

\* self._extract_confidence(analysis_text)
ExtractConfidenceCall ==
    /\ xConfidence = -1
    /\ xConfidence' = ExtractConfidence(xText)
    /\ UNCHANGED <<xText, exceptClassifier>>

ClassifierInit ==
    /\ xText \in {<<SpaceJoin(words)>> : words \in SeqsUpTo(Vocabulary, MaxWords)}
    /\ xConfidence = -1

ClassifierIdle == xText = <<>> /\ xConfidence = -1

-----------------------------------------------------------------------------
(* The analysis pipeline: perform_analysis and analyze_case                *)

MaxFacts == 2
MaxArticles == 2
MaxLines == 2

Cases == {"c1"}

\* case_data, as far as the analysis reads it
CaseData(case_id, description) == [case_id |-> case_id, description |-> description]

\* a string is a sequence of characters ("bullet" is U+2022), a text a sequence of
\* lines (split('\n'))
FactNames == <<"f1", "f2", "f3">>
FactText(i) == <<<<FactNames[i]>>>>
Lines == {<<"1", ".", " ", "a">>, <<"-", " ", "2", "a">>, <<"-", " ">>, <<"a">>}
EmptyText == <<<<>>>>

\* what get_completion returns: None, "" or a text
NoResponse == [some |-> FALSE, lines |-> <<>>]
Response(lines) == [some |-> TRUE, lines |-> lines]
ShortResponses == {NoResponse, Response(EmptyText), Response(<<<<"a">>>>)}

\* answers to an applicability request: also a text with a strong marker
AnalysisResponses == ShortResponses \cup {Response(<<<<"qatan">>>>)}

\* answers to an applicability request, one text of each confidence class
ClassifiedResponses ==
    AnalysisResponses
    \cup {Response(<<<<"ehtemalan">>>>), Response(<<<<"shayad">>>>), Response(<<<<"baid">>>>)}
LongResponses ==
    {NoResponse, Response(EmptyText)}
    \cup {Response(ls) : ls \in SeqsUpTo(Lines, MaxLines) \ {<<>>}}

\* answers to the deduction request, also with lines numbered in Persian digits
\* ("fa1" is U+06F1) or padded with spaces
NumberedResponses ==
    LongResponses
    \cup {Response(<<l>>) : l \in {<<"fa1", ".", " ", "a">>, <<" ", "2", ")", " ", "a", " ">>}}

\* mutant: only None counts as no text
NotTextNoneOnly(r) == ~r.some

\* `not analysis_text`, `not result`, `not verdict_text`
NotText(r) == ~r.some \/ r.lines = EmptyText

\* entities: None, or CaseEntities with its key_facts
NoEntities == [some |-> FALSE, key_facts |-> <<>>]
CaseEntities(n) == [some |-> TRUE, key_facts |-> [i \in 1..n |-> FactText(i)]]

\* what get_structured_json returns: nothing (None, {}), or a dict that
\* CaseEntities(**result) accepts or rejects
NoJson == [some |-> FALSE, valid |-> FALSE, key_facts |-> 0]
Json(valid, n) == [some |-> TRUE, valid |-> valid, key_facts |-> n]

\* EntityExtractor.extract after the provider call
Extract(result) ==
    IF ~result.some THEN NoEntities
    ELSE IF ~result.valid THEN NoEntities
    ELSE CaseEntities(result.key_facts)

ExtractionOutcomes ==
    {Extract(result) : result \in {NoJson} \cup {Json(v, n) : v \in BOOLEAN, n \in 0..MaxFacts}}

\* mutant: a failed extraction is not noticed
NothingExtractedNever(entities) == FALSE

\* `if not entities`
NothingExtracted(entities) == ~entities.some

\* what retrieval can return: provisions by number, each at most once, in rank order
ArticleNumbers == 1..MaxArticles
RetrievalOutcomes ==
    {arts \in SeqsUpTo(ArticleNumbers, MaxArticles) :
        \A i, j \in 1..Len(arts) : i # j => arts[i] # arts[j]}

\* mutant: an empty retrieval is not noticed
RetrievalEmptyNever(articles) == FALSE

\* `if not articles`
RetrievalEmpty(articles) == articles = <<>>

Digits == {"0", "1", "2", "3", "4", "5", "6", "7", "8", "9"}

\* str.isdigit() of one character: the decimal digits of every script
IsDigit(c) == c \in Digits \cup {"fa0", "fa1", "fa2", "fa3", "fa4", "fa5", "fa6", "fa7", "fa8", "fa9"}

RECURSIVE LStrip(_, _)
\* str.lstrip(chars)
LStrip(str, chars) ==
    IF str # <<>> /\ Head(str) \in chars THEN LStrip(Tail(str), chars) ELSE str

RECURSIVE RStrip(_, _)
RStrip(str, chars) ==
    IF str # <<>> /\ str[Len(str)] \in chars
    THEN RStrip(SubSeq(str, 1, Len(str) - 1), chars)
    ELSE str

\* str.strip()
Strip(str) == RStrip(LStrip(str, {" "}), {" "})

RECURSIVE ParseDeductions(_)
\* the line loop of _generate_deductions
ParseDeductions(lines) ==
    IF lines = <<>> THEN <<>>
    ELSE LET line == Strip(Head(lines))
             listed == line # <<>> /\ (IsDigit(Head(line)) \/ Head(line) \in {"-", "bullet"})
             deduction == Strip(LStrip(line, Digits \cup {".", "-", "bullet", ")", " "}))
         IN  (IF listed /\ deduction # <<>> THEN <<deduction>> ELSE <<>>)
             \o ParseDeductions(Tail(lines))

\* _generate_deductions after the completion call
GenerateDeductionsFrom(r) == IF NotText(r) THEN <<>> ELSE ParseDeductions(r.lines)

\* `for i, article in enumerate(articles, 1)`: in the loop body, or past the loop
LoopStage(articles, i) == IF i <= Len(articles) THEN "articles" ELSE "deduce"

\* mutant: the facts are taken last to first
FactStepsReversed(key_facts) ==
    [i \in 1..Len(key_facts) |->
        ReasoningStep("FACT", key_facts[Len(key_facts) + 1 - i], 100, 0)]

\* the FACT steps analyze_case starts the trace with
FactSteps(key_facts) == [i \in 1..Len(key_facts) |-> ReasoningStep("FACT", key_facts[i], 100, 0)]

DeductionSteps(deductions) ==
    [i \in 1..Len(deductions) |-> ReasoningStep("DEDUCTION", <<deductions[i]>>, 80, 0)]

NoVerdict == [some |-> FALSE, text |-> <<>>]

AnalysisKey(case_id) == <<"analysis", case_id>>

\* mutant: an entry without a verdict holds nothing else either
EntryOnlyWithVerdict(entities, result, built, verdict) ==
    [entities |-> entities,
     reasoning_result |-> IF verdict.some THEN result ELSE NoResult,
     graph |-> IF verdict.some THEN built ELSE NoGraph,
     verdict |-> verdict]

\* the dict perform_analysis stores in st.session_state
Entry(entities, result, built, verdict) ==
    [entities |-> entities, reasoning_result |-> result, graph |-> built, verdict |-> verdict]

\* mutant: an analysis classified exactly 0.6 counts as applicable
IsApplicableFromThreshold(confidence) == confidence >= 60

\* `confidence > 0.6`
IsApplicable(confidence) == confidence > 60

\* the dict _analyze_article_applicability returns for a text
Analysis(article_number, analysis_text) ==
    LET confidence == ExtractConfidence(analysis_text)
    IN  [article_number |-> article_number, analysis_text |-> analysis_text,
         confidence |-> confidence, is_applicable |-> IsApplicable(confidence)]

\* analyses_text of _generate_deductions: one block per applicable analysis
AnalysesText(analyses) ==
    LET applicable == SelectSeq(analyses, LAMBDA a : a.is_applicable)
    IN  [i \in 1..Len(applicable) |->
            [article_number |-> applicable[i].article_number,
             analysis_text |-> applicable[i].analysis_text]]

\* a completion request: what its prompt was built from, and what came back
Request(kind, article, analyses, response) ==
    [kind |-> kind, article |-> article, analyses |-> analyses, response |-> response]

\* render_analysis: the pipeline runs when the case has no stored entry
PerformAnalysis(case_data) ==
    /\ ppc = "idle"
    /\ AnalysisKey(case_data.case_id) \notin DOMAIN session_state
    /\ ppc' = "extract"
    /\ pCase' = case_data.case_id
    /\ pDescription' = case_data.description
    /\ pDone' = {}
    /\ pEntities' = NoEntities
    /\ pArticles' = <<>>
    /\ pIndex' = 0
    /\ pSteps' = <<>>
    /\ pAnalyses' = <<>>
    /\ pResult' = NoResult
    /\ pGraph' = NoGraph
    /\ pVerdict' = NoVerdict
    /\ pRequests' = <<>>
    /\ UNCHANGED <<session_state, pStoredFor>>

RenderAnalysis(case_data) == PerformAnalysis(case_data) /\ UNCHANGED exceptPipeline

\* step 1 of perform_analysis: extractor.extract(); `if not entities: return`
ExtractEntities(entities) ==
    /\ ppc = "extract"
    /\ pDone' = pDone \cup {"extract"}
    /\ pEntities' = entities
    /\ ppc' = IF NothingExtracted(entities) THEN "idle" ELSE "retrieve"
    /\ UNCHANGED <<pCase, pDescription, pArticles, pIndex, pSteps, pAnalyses, pResult, pGraph,
                   pVerdict, pRequests, session_state, pStoredFor, exceptPipeline>>

\* analyze_case, step 1: retrieval; `if not articles: return None`; else the FACT steps
Retrieve(articles) ==
    /\ ppc = "retrieve"
    /\ pDone' = pDone \cup {"retrieve"}
    /\ pArticles' = articles
    /\ IF RetrievalEmpty(articles)
       THEN /\ ppc' = "check"
            /\ UNCHANGED <<pSteps, pIndex>>
       ELSE /\ ppc' = LoopStage(articles, 1)
            /\ pSteps' = FactSteps(pEntities.key_facts)
            /\ pIndex' = 1
    /\ UNCHANGED <<pCase, pDescription, pEntities, pAnalyses, pResult, pGraph, pVerdict, pRequests,
                   session_state, pStoredFor, exceptPipeline>>

\* analyze_case, one iteration of the article loop: _analyze_article_applicability
AnalyzeArticle(r) ==
    /\ ppc = "articles"
    /\ pRequests' = Append(pRequests, Request("applicability", pArticles[pIndex], <<>>, r))
    /\ IF NotText(r)
       THEN UNCHANGED <<pAnalyses, pSteps>>
       ELSE LET analysis == Analysis(pArticles[pIndex], r.lines)
            IN  /\ pAnalyses' = Append(pAnalyses, analysis)
                /\ pSteps' = Append(pSteps, ReasoningStep("ARTICLE", analysis.analysis_text,
                                                          analysis.confidence, pArticles[pIndex]))
    /\ pIndex' = pIndex + 1
    /\ ppc' = LoopStage(pArticles, pIndex + 1)
    /\ UNCHANGED <<pCase, pDescription, pDone, pEntities, pArticles, pResult, pGraph, pVerdict,
                   session_state, pStoredFor, exceptPipeline>>

\* analyze_case, step 3 to the end: _generate_deductions, the DEDUCTION steps, the result
GenerateDeductions(r) ==
    /\ ppc = "deduce"
    /\ pRequests' = Append(pRequests, Request("deduction", 0, AnalysesText(pAnalyses), r))
    /\ LET deductions == GenerateDeductionsFrom(r)
       IN  /\ pSteps' = pSteps \o DeductionSteps(deductions)
           /\ pResult' = ReasoningResult(pSteps', deductions, OverallConfidence(pSteps'))
    /\ pDone' = pDone \cup {"analyze"}
    /\ ppc' = "check"
    /\ UNCHANGED <<pCase, pDescription, pEntities, pArticles, pIndex, pAnalyses, pGraph, pVerdict,
                   session_state, pStoredFor, exceptPipeline>>

\* perform_analysis: `if not reasoning_result: return`
AnalysisFailed ==
    /\ ppc = "check"
    /\ ~pResult.some
    /\ ppc' = "idle"
    /\ UNCHANGED <<pCase, pDescription, pDone, pEntities, pArticles, pIndex, pSteps, pAnalyses, pResult,
                   pGraph, pVerdict, pRequests, session_state, pStoredFor, exceptPipeline>>

\* step 3 of perform_analysis: ReasoningGraph().build_from_reasoning(reasoning_result)
BuildReasoningGraph ==
    /\ ppc = "check"
    /\ pResult.some
    /\ pGraph' = BuildFromReasoning(pResult).graph
    /\ pDone' = pDone \cup {"graph"}
    /\ ppc' = "verdict"
    /\ UNCHANGED <<pCase, pDescription, pEntities, pArticles, pIndex, pSteps, pAnalyses, pResult,
                   pVerdict, pRequests, session_state, pStoredFor, exceptPipeline>>

\* step 4 of perform_analysis: generate_verdict, then the entry is stored
GenerateVerdict(r) ==
    /\ ppc = "verdict"
    /\ pRequests' = Append(pRequests, Request("verdict", 0, <<>>, r))
    /\ pVerdict' = IF NotText(r) THEN NoVerdict ELSE [some |-> TRUE, text |-> r.lines]
    /\ session_state' = (AnalysisKey(pCase) :> Entry(pEntities, pResult, pGraph, pVerdict'))
                        @@ session_state
    /\ pStoredFor' = (AnalysisKey(pCase) :> pDescription) @@ pStoredFor
    /\ pDone' = pDone \cup {"verdict", "store"}
    /\ ppc' = "idle"
    /\ UNCHANGED <<pCase, pDescription, pEntities, pArticles, pIndex, pSteps, pAnalyses, pResult,
                   pGraph, exceptPipeline>>

PipelineInit ==
    /\ ppc = "idle"
    /\ pCase = None
    /\ pDescription = None
    /\ pStoredFor = [k \in {} |-> None]
    /\ pDone = {}
    /\ pEntities = NoEntities
    /\ pArticles = <<>>
    /\ pIndex = 0
    /\ pSteps = <<>>
    /\ pAnalyses = <<>>
    /\ pResult = NoResult
    /\ pGraph = NoGraph
    /\ pVerdict = NoVerdict
    /\ pRequests = <<>>
    /\ session_state = [k \in {} |-> None]

PipelineIdle == PipelineInit

-----------------------------------------------------------------------------
(* _parse_verdict and _extract_section (verdict_generator.py).  A header   *)
(* synonym is spelled as the transliterated runs of the Persian phrase.    *)

MaxVerdictLines == 3

SectionNames ==
    {"summary", "proven_facts", "legal_analysis", "ruling", "implementation", "appealable"}

SectionHeaders ==
    [summary |-> {<<"kholase", " ", "parvande">>, <<"kholase">>},
     proven_facts |-> {<<"vagheiat", " ", "esbat", " ", "shode">>, <<"vagheiat">>},
     legal_analysis |-> {<<"tahlil", " ", "hoghughi">>, <<"estedlal", " ", "hoghughi">>},
     ruling |-> {<<"hokm">>, <<"ray">>},
     implementation |-> {<<"joziat", " ", "ejra", "yi">>, <<"ejra">>},
     appealable |-> {<<"ghabel", " ", "eteraz">>, <<"eteraz">>}]

\* startswith(('##', '**', ...)): "p1" to "p5" are the Persian digits
SectionBreaks ==
    {<<"##">>, <<"**">>, <<"p1", ".">>, <<"p2", ".">>, <<"p3", ".">>, <<"p4", ".">>,
     <<"p5", ".">>}

StartsWith(line, prefix) ==
    Len(line) >= Len(prefix) /\ SubSeq(line, 1, Len(prefix)) = prefix

RECURSIVE SectionLines(_, _, _)
\* the line loop of _extract_section
SectionLines(lines, headers, capturing) ==
    IF lines = <<>> THEN <<>>
    ELSE LET line_stripped == Strip(Head(lines))
             is_header == \E header \in headers : Occurs(header, line_stripped)
         IN  IF is_header THEN SectionLines(Tail(lines), headers, TRUE)
             ELSE IF /\ capturing /\ line_stripped # <<>>
                     /\ \E prefix \in SectionBreaks : StartsWith(line_stripped, prefix)
                     /\ ~\E h \in headers : Occurs(h, line_stripped)
             THEN <<>>
             ELSE (IF capturing /\ line_stripped # <<>> THEN <<line_stripped>> ELSE <<>>)
                  \o SectionLines(Tail(lines), headers, capturing)

\* '\n'.join(section_lines).strip(): the stripped lines, or the empty string
ExtractSection(text, headers) ==
    IF SectionLines(text, headers, FALSE) = <<>> THEN EmptyText
    ELSE SectionLines(text, headers, FALSE)

Placeholder(name) == <<<<"placeholder", name>>>>

\* mutant: the fallback keeps the stripped lines of the text
FallbackSectionsStripped(verdict_text) ==
    [name \in SectionNames |->
        IF name = "legal_analysis"
        THEN [i \in 1..Len(verdict_text) |-> Strip(verdict_text[i])]
        ELSE Placeholder(name)]

\* the sections used when no section was found
FallbackSections(verdict_text) ==
    [name \in SectionNames |->
        IF name = "legal_analysis" THEN verdict_text ELSE Placeholder(name)]

\* _parse_verdict; the sections are the fields of the Verdict
ParseVerdict(verdict_text, case_id, confidence) ==
    LET found == [name \in SectionNames |-> ExtractSection(verdict_text, SectionHeaders[name])]
        sections == IF \A name \in SectionNames : found[name] = EmptyText
                    THEN FallbackSections(verdict_text)
                    ELSE found
    IN  [some |-> TRUE, case_id |-> case_id, confidence |-> confidence,
         sections |-> [sections EXCEPT !["appealable"] =
                          IF @ = EmptyText THEN Placeholder("appealable") ELSE @]]

VerdictLines ==
    {<<>>, <<" ", "a", " ">>, <<"**", "b">>, <<"kholase">>, <<"##", " ", "hokm">>,
     <<"joziat", " ", "ejra", "yi">>, <<"a", " ", "hokm">>}

NotParsed == [some |-> FALSE]

\* self._parse_verdict(verdict_text, case_id, confidence)
ParseVerdictCall ==
    /\ ~vVerdict.some
    /\ vVerdict' = ParseVerdict(vText, "c1", Frac(50, 1))
    /\ UNCHANGED <<vText, exceptVerdict>>

VerdictInit ==
    /\ vText \in SeqsUpTo(VerdictLines, MaxVerdictLines) \ {<<>>}
    /\ vVerdict = NotParsed

VerdictIdle == vText = <<>> /\ vVerdict = NotParsed

-----------------------------------------------------------------------------
(* Module-level singletons and reset_client (client_factory.py)            *)

MaxInstances == 6

\* an object is known by its identity, a positive number; 0 is None
Components == {"extractor", "engine", "generator", "kb"}

\* the module globals and the memo of st.cache_resource, as one value
World(globals, resource, next) == [instances |-> globals, kbResource |-> resource, nextId |-> next]

\* what a getter leaves and returns; `seen` adds the accesses it made on the way
Got(w, component, returned, seen) ==
    [w |-> w, returned |-> returned, seen |-> (component :> returned) @@ seen]

NothingSeen == [c \in {} |-> 0]

\* get_entity_extractor
GetEntityExtractorCall(w) ==
    IF w.instances._extractor_instance = 0
    THEN Got(World([w.instances EXCEPT !._extractor_instance = w.nextId],
                   w.kbResource, w.nextId + 1),
             "extractor", w.nextId, NothingSeen)
    ELSE Got(w, "extractor", w.instances._extractor_instance, NothingSeen)

\* get_verdict_generator
GetVerdictGeneratorCall(w) ==
    IF w.instances._generator_instance = 0
    THEN Got(World([w.instances EXCEPT !._generator_instance = w.nextId],
                   w.kbResource, w.nextId + 1),
             "generator", w.nextId, NothingSeen)
    ELSE Got(w, "generator", w.instances._generator_instance, NothingSeen)

\* get_knowledge_base under @st.cache_resource: the body runs when nothing is memoised
GetKnowledgeBaseCall(w) ==
    IF w.kbResource # 0
    THEN Got(w, "kb", w.kbResource, NothingSeen)
    ELSE IF w.instances._kb_instance = 0
         THEN Got(World([w.instances EXCEPT !._kb_instance = w.nextId],
                        w.nextId, w.nextId + 1),
                  "kb", w.nextId, NothingSeen)
         ELSE Got(World(w.instances, w.instances._kb_instance, w.nextId),
                  "kb", w.instances._kb_instance, NothingSeen)

\* get_reasoning_engine; ReasoningEngine.__init__ calls get_knowledge_base()
GetReasoningEngineCall(w) ==
    IF w.instances._engine_instance = 0
    THEN LET kb == GetKnowledgeBaseCall(w)
         IN  Got(World([kb.w.instances EXCEPT !._engine_instance = kb.w.nextId],
                       kb.w.kbResource, kb.w.nextId + 1),
                 "engine", kb.w.nextId, kb.seen)
    ELSE Got(w, "engine", w.instances._engine_instance, NothingSeen)

\* _reset_downstream_singletons: three attribute assignments and
\* get_knowledge_base.clear()
ResetDownstreamSingletons(w) ==
    World([w.instances EXCEPT !._extractor_instance = 0,
                              !._engine_instance = 0,
                              !._verdict_instance = 0],
          0, w.nextId)

\* the instance a component's getter would hand out now (0 when none exists)
Existing(w, component) ==
    CASE component = "extractor" -> w.instances._extractor_instance
      [] component = "engine" -> w.instances._engine_instance
      [] component = "generator" -> w.instances._generator_instance
      [] component = "kb" -> IF w.kbResource # 0 THEN w.kbResource
                             ELSE w.instances._kb_instance

TheWorld == World(instances, kbResource, nextId)

\* a getter is called: the world it leaves, and the first access of each component
\* since the last reset is remembered
Access(got) ==
    /\ instances' = got.w.instances
    /\ kbResource' = got.w.kbResource
    /\ nextId' = got.w.nextId
    /\ afterReset' = [c \in Components |->
                        IF afterReset[c] = 0 /\ c \in DOMAIN got.seen
                        THEN got.seen[c] ELSE afterReset[c]]
    /\ UNCHANGED <<atReset, exceptSingletons>>

GetEntityExtractor ==
    /\ GetEntityExtractorCall(TheWorld).w.nextId <= MaxInstances + 1
    /\ Access(GetEntityExtractorCall(TheWorld))

GetReasoningEngine ==
    /\ GetReasoningEngineCall(TheWorld).w.nextId <= MaxInstances + 1
    /\ Access(GetReasoningEngineCall(TheWorld))

GetVerdictGenerator ==
    /\ GetVerdictGeneratorCall(TheWorld).w.nextId <= MaxInstances + 1
    /\ Access(GetVerdictGeneratorCall(TheWorld))

GetKnowledgeBase ==
    /\ GetKnowledgeBaseCall(TheWorld).w.nextId <= MaxInstances + 1
    /\ Access(GetKnowledgeBaseCall(TheWorld))


\* reset_client: the three globals of client_factory, then the downstream singletons
ResetClientCall ==
    /\ LET w == ResetDownstreamSingletons(
                    World([instances EXCEPT !._client_instance = 0,
                                            !._current_provider = None,
                                            !._current_model = None],
                          kbResource, nextId))
       IN  /\ instances' = w.instances
           /\ kbResource' = w.kbResource
    /\ atReset' = [c \in Components |-> Existing(TheWorld, c)]
    /\ afterReset' = [c \in Components |-> 0]
    /\ UNCHANGED nextId

\* reset_client(), called on its own
ResetClient ==
    /\ ResetClientCall
    /\ UNCHANGED exceptSingletons

\* a fresh process: no instance exists; -1 is an attribute that does not exist
SingletonInit ==
    /\ instances = [_client_instance |-> 0, _current_provider |-> None,
                    _current_model |-> None, _extractor_instance |-> 0,
                    _engine_instance |-> 0, _generator_instance |-> 0,
                    _verdict_instance |-> -1, _kb_instance |-> 0]
    /\ kbResource = 0
    /\ nextId = 1
    /\ atReset = [c \in Components |-> 0]
    /\ afterReset = [c \in Components |-> 0]

SingletonIdle == SingletonInit

-----------------------------------------------------------------------------
(* The statutory corpus and get_related_articles (knowledge_base.py)       *)

MaxDepth == 2

\* provision numbers: those of the corpus, and one the corpus does not hold
CorpusNumbers == {1, 2, 3}
ForeignNumber == 4
RelatedLists == SeqsUpTo(CorpusNumbers \cup {ForeignNumber}, 2)

\* an article of data/legal_articles.json, as far as the traversal reads it
Article(number, related) == [article_number |-> number, related_articles |-> related]

\* the corpora the traversal is exercised on: provisions 1, 2, 3 in file order,
\* each with any list of related numbers
Corpora ==
    {[i \in 1..3 |-> Article(i, rel[i])] : rel \in [1..3 -> RelatedLists]}

NoArticle == [some |-> FALSE, article |-> Article(0, <<>>)]

RECURSIVE GetArticleByNumber(_, _)
\* get_article_by_number: the first article of that number, or None
GetArticleByNumber(corpus, number) ==
    IF corpus = <<>> THEN NoArticle
    ELSE IF Head(corpus).article_number = number
         THEN [some |-> TRUE, article |-> Head(corpus)]
         ELSE GetArticleByNumber(Tail(corpus), number)

\* mutant: the skip test forgets the visited set
SkipsDepthOnly(seen, current_num, current_depth, limit) == current_depth > limit

\* `if current_num in visited or current_depth > depth: continue`
Skips(seen, current_num, current_depth, limit) ==
    current_num \in seen \/ current_depth > limit

\* mutant: only the first related number is followed
EnqueueFirstRelatedOnly(q, related, seen, next_depth) ==
    IF related = <<>> \/ related[1] \in seen THEN q
    ELSE Append(q, <<related[1], next_depth>>)

\* `for related_num in related: if related_num not in visited: queue.append(...)`
Enqueue(q, related, seen, next_depth) ==
    q \o [i \in 1..Len(SelectSeq(related, LAMBDA n : n \notin seen)) |->
            <<SelectSeq(related, LAMBDA n : n \notin seen)[i], next_depth>>]

\* one iteration of `while queue`
RelatedStep ==
    /\ kpc = "loop"
    /\ queue # <<>>
    /\ LET current_num == Head(queue)[1]
           current_depth == Head(queue)[2]
           found == GetArticleByNumber(kbArticles, current_num)
           seen == visited \cup {current_num}
       IN  IF Skips(visited, current_num, current_depth, depth)
           THEN /\ queue' = Tail(queue)
                /\ UNCHANGED <<visited, results>>
           ELSE /\ visited' = seen
                /\ results' = IF found.some /\ current_num # article_num
                              THEN Append(results, found.article)
                              ELSE results
                /\ queue' = IF found.some /\ current_depth < depth
                            THEN Enqueue(Tail(queue), found.article.related_articles,
                                         seen, current_depth + 1)
                            ELSE Tail(queue)
    /\ UNCHANGED <<kbArticles, article_num, depth, kpc, exceptRelated>>

\* the queue is empty: `return results`
RelatedReturn ==
    /\ kpc = "loop"
    /\ queue = <<>>
    /\ kpc' = "done"
    /\ UNCHANGED <<kbArticles, article_num, depth, visited, queue, results, exceptRelated>>

\* get_related_articles(article_num, depth) has just been entered
RelatedInit ==
    /\ kbArticles \in Corpora
    /\ article_num \in CorpusNumbers \cup {ForeignNumber}
    /\ depth \in 0..MaxDepth
    /\ visited = {}
    /\ queue = <<<<article_num, 0>>>>
    /\ results = <<>>
    /\ kpc = "loop"

RelatedIdle ==
    /\ kbArticles = <<>>
    /\ article_num = 0
    /\ depth = 0
    /\ visited = {}
    /\ queue = <<>>
    /\ results = <<>>
    /\ kpc = "done"

-----------------------------------------------------------------------------
(* LegalKnowledgeBase: construction and retrieve_relevant_articles         *)
(* (knowledge_base.py).  A distance or a score is an exact fraction; the   *)
(* vectors of the index are seen through their L2 distance to the vector   *)
(* of the one query the calls of a behaviour share.                        *)
MaxCorpus == 2

TOP_K_ARTICLES == 5

SIMILARITY_THRESHOLD == Frac(7, 10)

\* an optional argument: absent (None) or a value
NoThreshold == [some |-> FALSE, value |-> Frac(0, 1)]

Threshold(n, d) == [some |-> TRUE, value |-> Frac(n, d)]

ThresholdArgs == {NoThreshold, Threshold(0, 1), Threshold(1, 2), Threshold(3, 4)}

NoTopK == [some |-> FALSE, value |-> 0]

TopK(k) == [some |-> TRUE, value |-> k]

TopKArgs == {NoTopK, TopK(1)}

\* the words of the query, and the keyword lists an article can carry
Query == <<"K1", "k2">>

KeywordLists == {<<>>, <<"k1", "x">>, <<"k1", "K2", "x">>}

Unloadable == [loadable |-> FALSE, articles |-> <<>>]

Loadable(articles) == [loadable |-> TRUE, articles |-> articles]

FileArticle(number, keywords) == [article_number |-> number, keywords |-> keywords]

\* data/legal_articles.json: a list of articles, or a file that cannot be
\* opened, parsed or has no 'articles' key
ArticleFiles ==
    {Unloadable} \cup
    UNION {{Loadable([i \in 1..n |-> FileArticle(i, kws[i])]) : kws \in [1..n -> KeywordLists]} :
           n \in 0..MaxCorpus}

\* _load_articles: any failure is reported and becomes the empty list
LoadArticles(file) == IF file.loadable THEN file.articles ELSE <<>>

\* the distance of an indexed vector to the query vector
Distances == {Frac(3, 4), Frac(1, 1)}

\* what the library reports for a slot it has no neighbour for: label -1 and
\* the largest float, read here as an infinite distance
NoNeighbour == [label |-> -1, distance |-> Frac(1, 0)]

\* the order in which a search reports the vectors: by distance, nearest
\* first; the order among equal distances is the library's
SearchOrders(embeddings) ==
    {order \in [1..Len(embeddings) -> 1..Len(embeddings)] :
        /\ \A i, j \in 1..Len(embeddings) : i # j => order[i] # order[j]
        /\ \A i, j \in 1..Len(embeddings) :
              i < j => FracLeq(embeddings[order[i]], embeddings[order[j]])}

NoKnowledgeBase == [articles |-> <<>>, embeddings |-> <<>>, index |-> <<>>]

\* index.search(query_vector, top_k): top_k slots, labels counted from 0
IndexSearch(kb, top_k) ==
    [i \in 1..top_k |->
        IF i <= Len(kb.index)
        THEN [label |-> kb.index[i] - 1, distance |-> kb.embeddings[kb.index[i]]]
        ELSE NoNeighbour]

\* self.articles[idx]: a negative idx counts from the end; IndexError outside
InRange(list, idx) == -Len(list) <= idx /\ idx < Len(list)

Subscript(list, idx) == IF idx >= 0 THEN list[idx + 1] ELSE list[Len(list) + idx + 1]

\* similarity = 1 / (1 + distance)
Similarity(distance) == Frac(distance.den, distance.den + distance.num)

RECURSIVE CountMatches(_, _)
CountMatches(keywords, query) ==
    IF keywords = <<>> THEN 0
    ELSE (IF \E i \in 1..Len(query) : LowerWord(query[i]) = LowerWord(Head(keywords))
          THEN 1 ELSE 0) + CountMatches(Tail(keywords), query)

KeywordMatchScore(query, article) ==
    IF article.keywords = <<>> THEN Frac(0, 1)
    ELSE Frac(CountMatches(article.keywords, query), Len(article.keywords))

\* 0.7 * similarity + 0.3 * keyword_score, or the similarity alone
FinalScore(similarity, keyword_score, use_hybrid) ==
    IF use_hybrid
    THEN Frac(7 * similarity.num * keyword_score.den + 3 * keyword_score.num * similarity.den,
              10 * similarity.den * keyword_score.den)
    ELSE similarity

Scored(kb, query, use_hybrid, hit) ==
    LET article == Subscript(kb.articles, hit.label)
        similarity == Similarity(hit.distance)
    IN [article_number |-> article.article_number,
        keywords |-> article.keywords,
        relevance_score |-> FinalScore(similarity, KeywordMatchScore(query, article), use_hybrid),
        similarity |-> similarity]

\* where list.sort(reverse=True) puts an element: behind every element whose
\* score is at least its own (the sort is stable)
InsertedAt(sorted, x) ==
    Cardinality({i \in 1..Len(sorted) : FracLeq(x.relevance_score, sorted[i].relevance_score)})

RECURSIVE SortByRelevance(_)
SortByRelevance(s) ==
    IF s = <<>> THEN <<>>
    ELSE LET init == SortByRelevance(SubSeq(s, 1, Len(s) - 1))
             x == s[Len(s)]
             k == InsertedAt(init, x)
         IN SubSeq(init, 1, k) \o <<x>> \o SubSeq(init, k + 1, Len(init))

\* `top_k or settings.TOP_K_ARTICLES`: None and 0 give way to the default
EffectiveTopK(top_k) ==
    IF ~top_k.some \/ top_k.value = 0 THEN TOP_K_ARTICLES ELSE top_k.value

\* `similarity_threshold or settings.SIMILARITY_THRESHOLD`
EffectiveThreshold(similarity_threshold) ==
    IF ~similarity_threshold.some \/ similarity_threshold.value.num = 0
    THEN SIMILARITY_THRESHOLD
    ELSE similarity_threshold.value

NoCandidates == <<>>

\* one call: [status, candidates, results]; candidates are the scored
\* neighbours in the order of the search, before the threshold
RetrieveRelevantArticles(kb, query, embedded, top_k, similarity_threshold, use_hybrid) ==
    LET hits == IndexSearch(kb, EffectiveTopK(top_k))
        candidates == [i \in 1..Len(hits) |-> Scored(kb, query, use_hybrid, hits[i])]
        kept == SelectSeq(candidates,
                    LAMBDA a : FracLeq(EffectiveThreshold(similarity_threshold), a.relevance_score))
    IN IF ~embedded
       THEN [status |-> "returned", candidates |-> NoCandidates, results |-> <<>>]
       ELSE IF \E i \in 1..Len(hits) : ~InRange(kb.articles, hits[i].label)
       THEN [status |-> "raised", candidates |-> NoCandidates, results |-> <<>>]
       ELSE [status |-> "returned", candidates |-> candidates,
             results |-> SortByRelevance(kept)]


NeverRetrieved ==
    [called |-> FALSE, similarity_threshold |-> NoThreshold, embedded |-> FALSE,
     status |-> "returned", candidates |-> NoCandidates, results |-> <<>>]

\* the provisions of a result list
Numbers(articles) == {articles[i].article_number : i \in 1..Len(articles)}

\* what is kept of a call once another call follows it
Summary(call) ==
    [called |-> call.called, similarity_threshold |-> call.similarity_threshold,
     numbers |-> Numbers(call.results)]

ReturnedFromIndex(call) == call.called /\ call.embedded /\ call.status = "returned"

\* LegalKnowledgeBase(): load the articles, embed them, build the index.
\* index.add of the empty array of an empty corpus is the library's: it
\* raises or it leaves an empty index.
Construct ==
    /\ qpc = "new"
    /\ LET articles == LoadArticles(qFile) IN
       \E embeddings \in [1..Len(articles) -> Distances] :
       \E order \in SearchOrders(embeddings) :
       \E empty_add_raises \in BOOLEAN :
          IF articles = <<>> /\ empty_add_raises
          THEN qpc' = "raised" /\ qKb' = NoKnowledgeBase
          ELSE /\ qpc' = "ready"
               /\ qKb' = [articles |-> articles, embeddings |-> embeddings, index |-> order]
    /\ UNCHANGED <<qFile, qTopK, qUseHybrid, qLast, qEarlier, exceptRetrieval>>

\* kb.retrieve_relevant_articles(query, top_k, similarity_threshold, use_hybrid);
\* `embedded` is whether the provider embedded the query
RetrieveRelevant(similarity_threshold, embedded) ==
    /\ qpc = "ready"
    /\ LET r == RetrieveRelevantArticles(qKb, Query, embedded, qTopK,
                                         similarity_threshold, qUseHybrid)
       IN /\ qLast' = [called |-> TRUE, similarity_threshold |-> similarity_threshold,
                       embedded |-> embedded, status |-> r.status,
                       candidates |-> r.candidates, results |-> r.results]
          /\ qEarlier' = IF ReturnedFromIndex(qLast) THEN Summary(qLast) ELSE qEarlier
    /\ UNCHANGED <<qFile, qTopK, qUseHybrid, qKb, qpc, exceptRetrieval>>

RetrievalInit ==
    /\ qFile \in ArticleFiles
    /\ qTopK \in TopKArgs
    /\ qUseHybrid \in BOOLEAN
    /\ qKb = NoKnowledgeBase
    /\ qpc = "new"
    /\ qLast = NeverRetrieved
    /\ qEarlier = Summary(NeverRetrieved)

RetrievalIdle ==
    /\ qFile = Unloadable
    /\ qTopK = NoTopK
    /\ qUseHybrid = TRUE
    /\ qKb = NoKnowledgeBase
    /\ qpc = "idle"
    /\ qLast = NeverRetrieved
    /\ qEarlier = Summary(NeverRetrieved)

-----------------------------------------------------------------------------
(* The provider selection of the sidebar and get_llm_client                *)
(* (sidebar.py, client_factory.py)                                         *)

\* how many models of each catalogue the select box offers here
MaxModels == 2

PROVIDER_MODELS ==
    [OpenAI |-> <<"gpt-4-turbo-preview", "gpt-4o", "gpt-4o-mini", "gpt-3.5-turbo">>,
     Gemini |-> <<"gemini-2.0-flash", "gemini-2.0-flash-lite", "gemini-1.5-flash",
                  "gemini-1.5-pro">>]

\* selected_provider.lower()
ProviderKey(selected_provider) ==
    CASE selected_provider = "OpenAI" -> "openai"
      [] selected_provider = "Gemini" -> "gemini"

\* settings.GEMINI_MODEL
GEMINI_MODEL == "gemini-2.0-flash"

\* `x or y` on strings
Or(x, y) == IF x # "" /\ x # None THEN x ELSE y

NotBuilt == [built |-> FALSE, raised |-> FALSE, provider_name |-> None, model_name |-> None]

\* _build_client: GeminiClient takes the model (model, else the session's
\* model, else the setting); OpenAIClient.__new__(cls) takes no argument, so
\* OpenAIClient(model=...) raises TypeError
BuildClient(provider, model, session_model) ==
    IF provider = "gemini"
    THEN [built |-> TRUE, raised |-> FALSE, provider_name |-> "gemini",
          model_name |-> Or(model, Or(session_model, GEMINI_MODEL))]
    ELSE [NotBuilt EXCEPT !.raised = TRUE]

\* the rebuild test of get_llm_client
NeedsRebuild(globals, provider, model) ==
    \/ globals._client_instance = 0
    \/ globals._current_provider # provider
    \/ (Or(globals._current_model, "") # "" /\ model # "" /\ globals._current_model # model)

NoFactoryCall ==
    [status |-> "none", provider |-> None, model |-> None, client |-> 0, rebuilt |-> FALSE,
     fresh |-> FALSE]

\* get_llm_client()
GetLlmClient ==
    /\ nextId <= MaxInstances
    /\ LET provider == ai_provider
           model == ai_model
           rebuild == NeedsRebuild(instances, provider, model)
           client == BuildClient(provider, model, ai_model)
           call == [NoFactoryCall EXCEPT !.provider = provider, !.model = model,
                                         !.rebuilt = rebuild, !.fresh = TRUE]
       IN  /\ fPrev' = fLast
           /\ IF ~rebuild
              THEN /\ fLast' = [call EXCEPT !.status = "returned",
                                            !.client = instances._client_instance]
                   /\ UNCHANGED <<instances, nextId, clients>>
              ELSE IF client.raised
              THEN /\ fLast' = [call EXCEPT !.status = "raised"]
                   /\ UNCHANGED <<instances, nextId, clients>>
              ELSE /\ clients' = (nextId :> client) @@ clients
                   /\ instances' = [instances EXCEPT
                                       !._client_instance = nextId,
                                       !._current_provider = provider,
                                       !._current_model = Or(model, client.model_name)]
                   /\ nextId' = nextId + 1
                   /\ fLast' = [call EXCEPT !.status = "returned", !.client = nextId]
    /\ UNCHANGED <<ai_provider, ai_model, kbResource, atReset, afterReset, exceptFactory>>

\* _render_ai_settings, the part that detects a change of the two select boxes
RenderAiSettings(selected_provider, selected_model) ==
    /\ LET provider_key == ProviderKey(selected_provider)
           provider_changed == provider_key # ai_provider
           model == IF provider_changed THEN PROVIDER_MODELS[selected_provider][1]
                    ELSE ai_model
           changed == provider_changed \/ selected_model # model
       IN  /\ ai_provider' = provider_key
           /\ ai_model' = selected_model
           /\ IF changed THEN ResetClientCall
              ELSE UNCHANGED <<instances, kbResource, nextId, atReset, afterReset>>
    /\ fLast' = [fLast EXCEPT !.fresh = FALSE]
    /\ UNCHANGED <<clients, fPrev, exceptFactory>>

\* a session starts: _init_ai_defaults copies settings.AI_PROVIDER, no model
FactoryInit ==
    /\ ai_provider \in Backends
    /\ ai_model = ""
    /\ clients = [id \in {} |-> NotBuilt]
    /\ fLast = NoFactoryCall
    /\ fPrev = NoFactoryCall

FactoryIdle ==
    /\ ai_provider = "openai"
    /\ ai_model = ""
    /\ clients = [id \in {} |-> NotBuilt]
    /\ fLast = NoFactoryCall
    /\ fPrev = NoFactoryCall

-----------------------------------------------------------------------------
(* The application script: app.py main, one tab after the other.  Every     *)
(* user interaction runs the script again from the first tab.               *)

\* the most submissions followed
MaxSubmissions == 3

CaseIds == {"c1", "c2"}
Descriptions == {"d1", "d2"}

\* st.session_state.current_case = None
NoCase == [some |-> FALSE, case_id |-> None, description |-> None]

\* the dict render_input_form returns on a valid submission
SubmittedCase(case_id, description) ==
    [some |-> TRUE, case_id |-> case_id, description |-> description]

\* what the form can return: None, or the case typed in (the id is a free text field)
FormOutcomes ==
    {NoCase} \cup {SubmittedCase(c, d) : c \in CaseIds, d \in Descriptions}

NothingDisplayed ==
    [some |-> FALSE, case_id |-> None, description |-> None, computed_from |-> None]

NotRendered == [outcome |-> "none", built |-> FALSE]

\* get_statistics: {} 'if not self.graph' (None, or a graph of no nodes),
\* the metrics otherwise; here the keys of the dict
GetStatistics(g) ==
    IF ~g.built \/ DOMAIN g.nodes = {}
    THEN {}
    ELSE {"total_nodes", "total_edges", "node_types", "num_facts", "num_articles",
          "num_deductions", "average_confidence"}

\* render_graph_view: display_graph when the key current_case_graph is in the
\* session state (init_session_state has put it there), the placeholder
\* otherwise; display_graph subscripts the statistics
GraphViewOutcome(has_key, g) ==
    IF ~has_key THEN "placeholder"
    ELSE IF {"total_nodes", "total_edges", "num_articles", "average_confidence"}
              \subseteq GetStatistics(g)
         THEN "statistics"
         ELSE "raised"

\* tab 1: render_input_form; a valid submission becomes the current case
RenderInputForm(case_data) ==
    /\ apc = "tab1"
    /\ case_data.some => case_counter <= MaxSubmissions
    /\ case_counter' = IF case_data.some THEN case_counter + 1 ELSE case_counter
    /\ current_case' = IF case_data.some THEN case_data ELSE current_case
    /\ apc' = "tab2"
    /\ UNCHANGED <<current_case_graph, displayed, tabGraph, pipelineVars, exceptApp>>

\* tab 2 without a current case: the hint is shown
RenderNoCase ==
    /\ apc = "tab2"
    /\ ~current_case.some
    /\ apc' = "tab3"
    /\ UNCHANGED <<case_counter, current_case, current_case_graph, displayed, tabGraph,
                   pipelineVars, exceptApp>>

\* tab 2, render_analysis without a stored entry: perform_analysis starts
StartAnalysis ==
    /\ apc = "tab2"
    /\ current_case.some
    /\ PerformAnalysis(current_case)
    /\ apc' = "analysis"
    /\ UNCHANGED <<case_counter, current_case, current_case_graph, displayed, tabGraph,
                   exceptApp>>

\* perform_analysis is over: st.rerun() after the entry is stored (the script
\* starts again, its form returns None, and tab 2 is reached), a plain return
\* after a failure, and then nothing is displayed
AnalysisReturned ==
    /\ apc = "analysis"
    /\ ppc = "idle"
    /\ apc' = IF AnalysisKey(current_case.case_id) \in DOMAIN session_state
              THEN "tab2" ELSE "tab3"
    /\ UNCHANGED <<case_counter, current_case, current_case_graph, displayed, tabGraph,
                   pipelineVars, exceptApp>>

\* tab 2, render_analysis with a stored entry: it is displayed, and main
\* copies its graph to current_case_graph
DisplayAnalysis ==
    /\ apc = "tab2"
    /\ current_case.some
    /\ AnalysisKey(current_case.case_id) \in DOMAIN session_state
    /\ LET cache_key == AnalysisKey(current_case.case_id)
       IN  /\ displayed' = [some |-> TRUE,
                            case_id |-> current_case.case_id,
                            description |-> current_case.description,
                            computed_from |-> pStoredFor[cache_key]]
           /\ current_case_graph' = session_state[cache_key].graph
    /\ apc' = "tab3"
    /\ UNCHANGED <<case_counter, current_case, tabGraph, pipelineVars, exceptApp>>

\* tab 3: render_graph_view; the script run ends here
RenderGraphView ==
    /\ apc = "tab3"
    /\ tabGraph' = [outcome |-> GraphViewOutcome(TRUE, current_case_graph),
                    built |-> current_case_graph.built]
    /\ apc' = "tab1"
    /\ UNCHANGED <<case_counter, current_case, current_case_graph, displayed,
                   pipelineVars, exceptApp>>

\* init_session_state
AppInit ==
    /\ apc = "tab1"
    /\ case_counter = 1
    /\ current_case = NoCase
    /\ current_case_graph = NoGraph
    /\ displayed = NothingDisplayed
    /\ tabGraph = NotRendered

AppIdle == AppInit

-----------------------------------------------------------------------------
(* Specifications                                                          *)

RetryNext ==
    \/ \E o \in Outcomes : RetryReturns(o)
    \/ \E o \in Outcomes : RetryRateLimited(o)
    \/ \E o \in Outcomes : RetryApiError(o)
    \/ \E o \in Outcomes : RetryUnexpected(o)
    \/ \E b \in Backends : RetryCall(b)

InitRetry == RetryInit /\ ClientIdle /\ GraphIdle /\ PipelineIdle /\ SingletonIdle /\ RelatedIdle /\ RetrievalIdle /\ ClassifierIdle /\ VerdictIdle /\ FactoryIdle /\ KeysIdle /\ AppIdle

SpecRetry == InitRetry /\ [][RetryNext]_vars

ClientNext ==
    \/ \E p \in Prompts, t \in Temperatures, mt \in MaxTokens : GetCompletion(p, t, mt)
    \/ \E o \in Outcomes : AttemptReturns(o)
    \/ \E o \in Outcomes : AttemptRateLimited(o)
    \/ \E o \in Outcomes : AttemptApiError(o)
    \/ \E o \in Outcomes : AttemptUnexpected(o)
    \/ GetOpenAIClient
    \/ \E m \in Models : BuildGeminiClient(m)
    \/ \E m \in Models : Restart(m)

InitClient == ClientInit /\ RetryIdle /\ GraphIdle /\ PipelineIdle /\ SingletonIdle /\ RelatedIdle /\ RetrievalIdle /\ ClassifierIdle /\ VerdictIdle /\ FactoryIdle /\ KeysIdle /\ AppIdle

SpecClient == InitClient /\ [][ClientNext]_vars

GraphNext == BuildGraph

InitGraph == GraphInit /\ ClientIdle /\ RetryIdle /\ PipelineIdle /\ SingletonIdle /\ RelatedIdle /\ RetrievalIdle /\ ClassifierIdle /\ VerdictIdle /\ FactoryIdle /\ KeysIdle /\ AppIdle

SpecGraph == InitGraph /\ [][GraphNext]_vars

PipelineNext ==
    \/ \E c \in Cases : RenderAnalysis(CaseData(c, "d1"))
    \/ \E e \in ExtractionOutcomes : ExtractEntities(e)
    \/ \E articles \in RetrievalOutcomes : Retrieve(articles)
    \/ \E r \in AnalysisResponses : AnalyzeArticle(r)
    \/ \E r \in LongResponses : GenerateDeductions(r)
    \/ AnalysisFailed
    \/ BuildReasoningGraph
    \/ \E r \in ShortResponses : GenerateVerdict(r)

\* the same pipeline, with an answer of every confidence class to each
\* applicability request and few answers to the other requests
ApplicabilityNext ==
    \/ \E c \in Cases : RenderAnalysis(CaseData(c, "d1"))
    \/ \E n \in 0..1 : ExtractEntities(Extract(Json(TRUE, n)))
    \/ \E articles \in RetrievalOutcomes : Retrieve(articles)
    \/ \E r \in ClassifiedResponses : AnalyzeArticle(r)
    \/ \E r \in ShortResponses : GenerateDeductions(r)
    \/ AnalysisFailed
    \/ BuildReasoningGraph
    \/ \E r \in {NoResponse, Response(<<<<"a">>>>)} : GenerateVerdict(r)

\* the same pipeline, with the full range of answers to the deduction request
\* and few answers to the other requests
DeductionsNext ==
    \/ \E c \in Cases : RenderAnalysis(CaseData(c, "d1"))
    \/ \E n \in 0..1 : ExtractEntities(Extract(Json(TRUE, n)))
    \/ \E articles \in RetrievalOutcomes : Retrieve(articles)
    \/ \E r \in {NoResponse, Response(<<<<"a">>>>)} : AnalyzeArticle(r)
    \/ \E r \in NumberedResponses : GenerateDeductions(r)
    \/ AnalysisFailed
    \/ BuildReasoningGraph
    \/ \E r \in {NoResponse, Response(<<<<"a">>>>)} : GenerateVerdict(r)

InitPipeline == PipelineInit /\ ClientIdle /\ RetryIdle /\ GraphIdle /\ SingletonIdle /\ RelatedIdle /\ RetrievalIdle /\ ClassifierIdle /\ VerdictIdle /\ FactoryIdle /\ KeysIdle /\ AppIdle

SpecPipeline == InitPipeline /\ [][PipelineNext]_vars

InitApplicability ==
    PipelineInit /\ ClientIdle /\ RetryIdle /\ GraphIdle /\ SingletonIdle
     /\ RelatedIdle /\ RetrievalIdle /\ ClassifierIdle /\ VerdictIdle /\ FactoryIdle /\ KeysIdle /\ AppIdle

SpecApplicability == InitApplicability /\ [][ApplicabilityNext]_vars

InitDeductions ==
    PipelineInit /\ ClientIdle /\ RetryIdle /\ GraphIdle /\ SingletonIdle
     /\ RelatedIdle /\ RetrievalIdle /\ ClassifierIdle /\ VerdictIdle /\ FactoryIdle /\ KeysIdle /\ AppIdle

SpecDeductions == InitDeductions /\ [][DeductionsNext]_vars

SingletonNext ==
    \/ GetEntityExtractor
    \/ GetReasoningEngine
    \/ GetVerdictGenerator
    \/ GetKnowledgeBase
    \/ ResetClient

InitSingletons == SingletonInit /\ ClientIdle /\ RetryIdle /\ GraphIdle /\ PipelineIdle /\ RelatedIdle /\ RetrievalIdle /\ ClassifierIdle /\ VerdictIdle /\ FactoryIdle /\ KeysIdle /\ AppIdle

SpecSingletons == InitSingletons /\ [][SingletonNext]_vars

RelatedNext == RelatedStep \/ RelatedReturn

InitRelated ==
    RelatedInit /\ ClientIdle /\ RetryIdle /\ GraphIdle /\ PipelineIdle /\ SingletonIdle /\ RetrievalIdle /\ ClassifierIdle /\ VerdictIdle /\ FactoryIdle /\ KeysIdle /\ AppIdle

\* the while loop keeps running until it returns
SpecRelated == InitRelated /\ [][RelatedNext]_vars /\ WF_vars(RelatedNext)

RetrievalNext ==
    \/ Construct
    \/ \E similarity_threshold \in ThresholdArgs, embedded \in BOOLEAN :
          RetrieveRelevant(similarity_threshold, embedded)

InitRetrieval ==
    RetrievalInit /\ ClientIdle /\ RetryIdle /\ GraphIdle /\ PipelineIdle /\ SingletonIdle /\ RelatedIdle /\ ClassifierIdle /\ VerdictIdle /\ FactoryIdle /\ KeysIdle /\ AppIdle

SpecRetrieval == InitRetrieval /\ [][RetrievalNext]_vars

ClassifierNext == ExtractConfidenceCall

InitClassifier ==
    ClassifierInit /\ ClientIdle /\ RetryIdle /\ GraphIdle /\ PipelineIdle /\ SingletonIdle /\ RelatedIdle /\ RetrievalIdle /\ VerdictIdle /\ FactoryIdle /\ KeysIdle /\ AppIdle

SpecClassifier == InitClassifier /\ [][ClassifierNext]_vars

VerdictNext == ParseVerdictCall

InitVerdict ==
    VerdictInit /\ ClientIdle /\ RetryIdle /\ GraphIdle /\ PipelineIdle /\ SingletonIdle /\ RelatedIdle /\ RetrievalIdle /\ ClassifierIdle /\ FactoryIdle /\ KeysIdle /\ AppIdle

SpecVerdict == InitVerdict /\ [][VerdictNext]_vars

FactoryNext ==
    \/ GetLlmClient
    \/ \E selected_provider \in DOMAIN PROVIDER_MODELS :
          \E i \in 1..MaxModels :
             RenderAiSettings(selected_provider, PROVIDER_MODELS[selected_provider][i])

InitFactory ==
    FactoryInit /\ SingletonInit /\ ClientIdle /\ RetryIdle /\ GraphIdle /\ PipelineIdle
     /\ RelatedIdle /\ RetrievalIdle /\ ClassifierIdle /\ VerdictIdle /\ KeysIdle /\ AppIdle

SpecFactory == InitFactory /\ [][FactoryNext]_vars

KeysNext == \E request \in KeyRequests : CacheKeyCall(request)

InitKeys ==
    KeysInit /\ ClientIdle /\ RetryIdle /\ GraphIdle /\ PipelineIdle /\ SingletonIdle
     /\ RelatedIdle /\ RetrievalIdle /\ ClassifierIdle /\ VerdictIdle /\ FactoryIdle /\ AppIdle

SpecKeys == InitKeys /\ [][KeysNext]_vars

\* the script runs, with few answers to each request of the pipeline
AppNext ==
    \/ \E case_data \in FormOutcomes : RenderInputForm(case_data)
    \/ RenderNoCase
    \/ StartAnalysis
    \/ \E n \in 0..1 : ExtractEntities(Extract(Json(TRUE, n)))
    \/ \E articles \in RetrievalOutcomes : Retrieve(articles)
    \/ \E r \in {NoResponse, Response(<<<<"a">>>>)} : AnalyzeArticle(r)
    \/ \E r \in {Response(<<<<"a">>>>)} : GenerateDeductions(r)
    \/ AnalysisFailed
    \/ BuildReasoningGraph
    \/ \E r \in {Response(<<<<"a">>>>)} : GenerateVerdict(r)
    \/ AnalysisReturned
    \/ DisplayAnalysis
    \/ RenderGraphView

InitApp ==
    AppInit /\ ClientIdle /\ RetryIdle /\ GraphIdle /\ PipelineIdle /\ SingletonIdle
     /\ RelatedIdle /\ RetrievalIdle /\ ClassifierIdle /\ VerdictIdle /\ FactoryIdle
     /\ KeysIdle

SpecApp == InitApp /\ [][AppNext]_vars

-----------------------------------------------------------------------------
(* Claims about the response cache (SpecClient)                            *)

RepeatedRequest == last.done /\ before.same

\* C5 (as stated): the same request issued twice in a row to the same client
\* yields the same text both times and at most one provider invocation in
\* total, whatever the provider did on the first request.
C5_TwiceSameTextOneCall ==
    RepeatedRequest => (last.result = before.result /\ before.calls + last.calls <= 1)

\* C5 (amended): when the first of two identical requests in a row returned a
\* text, the second returns the same text and invokes the provider zero times.
C5_RepeatIsServedFromCache ==
    (RepeatedRequest /\ before.result # None)
        => (last.result = before.result /\ last.calls = 0)

C5_Witness ==
    /\ RepeatedRequest
    /\ before.result \in Texts
    /\ before.calls = 2
    /\ last.result = before.result
    /\ last.calls = 0

\* C6: a text served from the cache was produced under the provider and model
\* of the client that serves the request.
C6_HitOnlyOwnIdentity ==
    (last.done /\ last.calls = 0) => last.source = last.model

-----------------------------------------------------------------------------
(* Claims about the retry loop (SpecRetry)                                 *)

\* the signal names quota exhaustion, in any letter case
SignalsQuota(msg) ==
    \E i \in 1..Len(msg) :
        msg[i] \in {"quota", "Quota", "QUOTA", "resource_exhausted", "RESOURCE_EXHAUSTED"}

\* attempt i (1-based) was the last invocation, no sleep followed it, and the
\* run returned None
AbortedAt(i) ==
    /\ i = Len(rLog)
    /\ Len(rWaits) = i - 1
    /\ rState = "returned"
    /\ rResult = None

\* C8: in the retry wrapper, an attempt that raises a rate-limit signal naming
\* quota exhaustion is the last invocation: no wait, no retry, None is returned,
\* at any attempt number.
C8_QuotaIsTerminal ==
    rBackend = "gemini" =>
        \A i \in 1..Len(rLog) :
            (rLog[i].kind = "rate" /\ SignalsQuota(rLog[i].msg)) => AbortedAt(i)

C8_Witness ==
    /\ rBackend = "gemini"
    /\ Len(rLog) = 3
    /\ rLog[3].kind = "rate" /\ SignalsQuota(rLog[3].msg)
    /\ rLog[2].kind = "rate" /\ ~SignalsQuota(rLog[2].msg)
    /\ rState = "returned"

\* C9: the loop invokes the call at most 3 times; a successful invocation is the
\* last one and its value is returned; after a third failed attempt (rate limit
\* or API error) the run has returned None.
C9_AtMostThreeAttempts ==
    /\ Len(rLog) <= 3
    /\ \A i \in 1..Len(rLog) :
          rLog[i].kind = "text" =>
              (i = Len(rLog) /\ rState = "returned" /\ rResult = rLog[i].text)
    /\ (Len(rLog) = 3 /\ rLog[3].kind \in {"rate", "api"}) =>
          (rState = "returned" /\ rResult = None)

C9_Witness ==
    /\ Len(rLog) = 3
    /\ rLog[1].kind = "api" /\ rLog[2].kind = "rate" /\ rLog[3].kind = "api"
    /\ rState = "returned"
    /\ rResult = None

\* C10: an exception that is neither a rate-limit signal nor an API error ends
\* the run at once: no wait, no further invocation, None is returned and
\* nothing is raised to the caller.
C10_UnexpectedAbortsAtOnce ==
    \A i \in 1..Len(rLog) : rLog[i].kind = "other" => AbortedAt(i)

C10_Witness ==
    /\ Len(rLog) = 2
    /\ rLog[1].kind = "rate"
    /\ rLog[2].kind = "other"
    /\ rState = "returned"
    /\ rResult = None

-----------------------------------------------------------------------------
(* Claims about the analysis pipeline (SpecPipeline)                       *)

\* the requests analyze_case and generate_verdict have issued in this run
RequestsOfKind(kind) == SelectSeq(pRequests, LAMBDA q : q.kind = kind)

\* the provider call came back with no text
Unanswered(q) == ~q.response.some \/ q.response.lines = <<<<>>>>

RetrievedNothing == "retrieve" \in pDone /\ pArticles = <<>>

\* C1: when retrieval returns zero provisions, analyze_case returns no result
\* and issues no applicability or deduction request, and the pipeline builds no
\* graph, generates no verdict and stores no entry for the case.
C1_EmptyRetrievalAborts ==
    RetrievedNothing =>
        /\ ppc \in {"check", "idle"}
        /\ ~pResult.some
        /\ pRequests = <<>>
        /\ ~pGraph.built
        /\ pDone \cap {"analyze", "graph", "verdict", "store"} = {}
        /\ ~pVerdict.some
        /\ AnalysisKey(pCase) \notin DOMAIN session_state

C1_Witness ==
    /\ RetrievedNothing
    /\ ppc = "idle"
    /\ pEntities.some
    /\ Len(pEntities.key_facts) = 2

\* the provisions of the ARTICLE steps of a trace, in trace order
ArticleStepNumbers(steps) ==
    LET articleSteps == SelectSeq(steps, LAMBDA st : st.step_type = "ARTICLE")
    IN  [i \in 1..Len(articleSteps) |-> articleSteps[i].related_article]

\* the provisions whose applicability request was answered with a text, in order
AnsweredNumbers ==
    LET answered == SelectSeq(RequestsOfKind("applicability"), LAMBDA q : ~Unanswered(q))
    IN  [i \in 1..Len(answered) |-> answered[i].article]

AnalyzeCaseReturned == "retrieve" \in pDone /\ ppc \in {"check", "verdict", "idle"}

\* C2: when retrieval returns at least one provision, analyze_case returns a
\* result whatever completion calls come back without text: every provision got
\* its applicability request, the ARTICLE steps are exactly those of the answered
\* requests, and an unanswered deduction request leaves the deductions empty and
\* the trace without DEDUCTION step.
C2_PartialFailuresDoNotAbort ==
    (AnalyzeCaseReturned /\ pArticles # <<>>) =>
        /\ pResult.some
        /\ [i \in 1..Len(RequestsOfKind("applicability")) |->
                RequestsOfKind("applicability")[i].article] = pArticles
        /\ ArticleStepNumbers(pResult.reasoning_steps) = AnsweredNumbers
        /\ Len(RequestsOfKind("deduction")) = 1
        /\ Unanswered(RequestsOfKind("deduction")[1]) =>
              /\ pResult.deductions = <<>>
              /\ \A i \in 1..Len(pResult.reasoning_steps) :
                    pResult.reasoning_steps[i].step_type # "DEDUCTION"

C2_Witness ==
    /\ AnalyzeCaseReturned
    /\ Len(pArticles) = 2
    /\ Unanswered(RequestsOfKind("applicability")[1])
    /\ ArticleStepNumbers(pResult.reasoning_steps) = <<pArticles[2]>>
    /\ Unanswered(RequestsOfKind("deduction")[1])
    /\ pResult.some
    /\ pResult.deductions = <<>>
    /\ AnalysisKey(pCase) \in DOMAIN session_state

-----------------------------------------------------------------------------
(* Claims about the reasoning graph (SpecGraph)                            *)

Layer(node_type) ==
    CASE node_type = "FACT" -> 0
      [] node_type = "ARTICLE" -> 1
      [] node_type = "DEDUCTION" -> 2
      [] node_type = "VERDICT" -> 3
      [] OTHER -> -1

InputCount(step_type) ==
    Cardinality({i \in 1..Len(reasoning_result.reasoning_steps) :
                    reasoning_result.reasoning_steps[i].step_type = step_type})

FactsIn == InputCount("FACT")
ArticlesIn == InputCount("ARTICLE")
DeductionsIn == Len(reasoning_result.deductions)

NodesOfType(node_type) == {id \in DOMAIN graph.nodes : graph.nodes[id] = node_type}

\* C3: for a result with F >= 1 FACT steps, A >= 1 ARTICLE steps and D >= 1
\* deductions the built graph has exactly one VERDICT node, no edge from a later
\* layer to an earlier one, and exactly F*A + A*D + D edges.
C3_EdgeCount ==
    (graph.built /\ FactsIn >= 1 /\ ArticlesIn >= 1 /\ DeductionsIn >= 1) =>
        /\ Cardinality(NodesOfType("VERDICT")) = 1
        /\ \A e \in graph.edges :
              Layer(graph.nodes[e[1]]) <= Layer(graph.nodes[e[2]])
        /\ Cardinality(graph.edges) =
              FactsIn * ArticlesIn + ArticlesIn * DeductionsIn + DeductionsIn

C3_Witness ==
    /\ graph.built
    /\ FactsIn = 2 /\ ArticlesIn = 2 /\ DeductionsIn = 2
    /\ Cardinality(graph.edges) = 10

\* C4: for every result, every edge of the built graph joins two nodes of the
\* graph and goes from a node of layer i to a node of layer i + 1, in the order
\* FACT 0, ARTICLE 1, DEDUCTION 2, VERDICT 3.
C4_StrictLayers ==
    graph.built =>
        \A e \in graph.edges :
            /\ e[1] \in DOMAIN graph.nodes /\ e[2] \in DOMAIN graph.nodes
            /\ Layer(graph.nodes[e[1]]) \in 0..2
            /\ Layer(graph.nodes[e[2]]) = Layer(graph.nodes[e[1]]) + 1

C4_Witness ==
    /\ graph.built
    /\ FactsIn = 0 /\ ArticlesIn = 2 /\ DeductionsIn = 1
    /\ Cardinality(graph.edges) = 3
    /\ Cardinality(DOMAIN graph.nodes) = 4

-----------------------------------------------------------------------------
(* Claims about reset_client (SpecSingletons)                              *)

\* C7: after reset_client(), the first access of each component returns a newly
\* built instance, never the one that existed before the reset.
C7_ResetRebuildsEveryComponent ==
    \A c \in Components :
        (atReset[c] # 0 /\ afterReset[c] # 0) => afterReset[c] # atReset[c]

-----------------------------------------------------------------------------
(* Claims about get_related_articles (SpecRelated)                         *)

ResultNumbers == [i \in 1..Len(results) |-> results[i].article_number]

StartNeverListed == \A i \in 1..Len(results) : ResultNumbers[i] # article_num

NothingListedTwice ==
    \A i, j \in 1..Len(results) : i # j => ResultNumbers[i] # ResultNumbers[j]

\* C11: get_related_articles returns the empty list at depth 0; at every depth
\* and for every adjacency (cycles and self-loops included) the list never holds
\* the start provision nor the same provision twice; and the traversal returns.
C11_CycleSafeTraversal ==
    /\ [](StartNeverListed /\ NothingListedTwice)
    /\ []((kpc = "done" /\ depth = 0) => results = <<>>)
    /\ <>(kpc = "done")

C11_Witness ==
    /\ kpc = "done"
    /\ article_num = 1
    /\ depth = 2
    /\ kbArticles[1].related_articles = <<1, 2>>
    /\ kbArticles[2].related_articles = <<1, 3>>
    /\ kbArticles[3].related_articles = <<2, 4>>
    /\ ResultNumbers = <<2, 3>>


-----------------------------------------------------------------------------
(* Claims about retrieve_relevant_articles (SpecRetrieval)                 *)

ThresholdLess(t1, t2) == t1.some /\ t2.some /\ ~FracLeq(t2.value, t1.value)

\* C12: for thresholds t1 < t2, t1 = 0 included, and the same query, top_k
\* and corpus, the provisions a call with t2 returns are among the provisions
\* a call with t1 returns.
C12_HigherThresholdReturnsSubset ==
    (qEarlier.called /\ ReturnedFromIndex(qLast)) =>
        /\ ThresholdLess(qEarlier.similarity_threshold, qLast.similarity_threshold)
              => Numbers(qLast.results) \subseteq qEarlier.numbers
        /\ ThresholdLess(qLast.similarity_threshold, qEarlier.similarity_threshold)
              => qEarlier.numbers \subseteq Numbers(qLast.results)

Returned == ReturnedFromIndex(qLast)

PassedThreshold ==
    IF qLast.similarity_threshold.some
    THEN qLast.similarity_threshold.value
    ELSE SIMILARITY_THRESHOLD

Score(i) == qLast.results[i].relevance_score

AllAtLeastThreshold == \A i \in 1..Len(qLast.results) : FracLeq(PassedThreshold, Score(i))

NonIncreasingScores ==
    \A i, j \in 1..Len(qLast.results) : i < j => FracLeq(Score(j), Score(i))

\* the articles of a file are numbered by their place in it
TiesInCorpusOrder ==
    \A i, j \in 1..Len(qLast.results) :
        (i < j /\ FracEq(Score(i), Score(j)))
            => qLast.results[i].article_number <= qLast.results[j].article_number

\* C13: every returned provision scores at least the threshold, the
\* list is in non-increasing order of score, and provisions of equal score
\* are in corpus order.
C13_SortedTiesInCorpusOrder ==
    Returned => (AllAtLeastThreshold /\ NonIncreasingScores /\ TiesInCorpusOrder)

\* C14: a corpus that cannot be loaded, or a query the provider cannot embed,
\* gives an empty result list, and neither the constructor nor
\* retrieve_relevant_articles raises.
C14_FailuresYieldEmptyNeverRaise ==
    /\ qpc # "raised"
    /\ qLast.called => qLast.status = "returned"
    /\ (qLast.called /\ (~qFile.loadable \/ ~qLast.embedded)) => qLast.results = <<>>

-----------------------------------------------------------------------------
(* Claims about confidences (SpecPipeline, SpecClassifier)                 *)

ArticleStepsOf(steps) == {i \in 1..Len(steps) : steps[i].step_type = "ARTICLE"}

RECURSIVE TotalConfidence(_, _)
TotalConfidence(steps, indices) ==
    IF indices = {} THEN 0
    ELSE LET i == CHOOSE i \in indices : TRUE
         IN  steps[i].confidence + TotalConfidence(steps, indices \ {i})

\* C15: in every result analyze_case returns, overall_confidence is the
\* arithmetic mean of the confidences of its ARTICLE steps, and it is exactly
\* 0.5 when the result has no ARTICLE step.
C15_OverallConfidenceIsMean ==
    pResult.some =>
        LET steps == pResult.reasoning_steps
            n == Cardinality(ArticleStepsOf(steps))
        IN  IF n = 0
            THEN pResult.overall_confidence = Frac(50, 1)
            ELSE /\ pResult.overall_confidence.den > 0
                 /\ pResult.overall_confidence.num * n =
                        TotalConfidence(steps, ArticleStepsOf(steps)) * pResult.overall_confidence.den

\* two facts, two answered provisions of different confidence: the mean is 82.5
C15_Witness ==
    /\ pResult.some
    /\ Len(pEntities.key_facts) = 2
    /\ {pResult.reasoning_steps[i].confidence : i \in ArticleStepsOf(pResult.reasoning_steps)}
          = {70, 95}
    /\ FracEq(pResult.overall_confidence, Frac(165, 2))

ClassValue == <<95, 80, 60, 30>>

Present(c) ==
    AnyIn(<<StrongMarkers, ModerateMarkers, HedgingMarkers, LowMarkers>>[c], xText)

\* C16: the classifier returns the value of the earliest class, in the order
\* strong, moderate, hedging, low-likelihood, of which the text holds a marker,
\* whatever later classes are present as well, and 0.70 when no class is present.
C16_FirstMatchWins ==
    xConfidence # -1 =>
        /\ \A c \in 1..4 :
              (Present(c) /\ \A b \in 1..(c - 1) : ~Present(b)) => xConfidence = ClassValue[c]
        /\ (\A c \in 1..4 : ~Present(c)) => xConfidence = 70

\* moderate, hedging and low-likelihood markers together, no strong one
C16_Witness ==
    /\ xConfidence = 80
    /\ ~Present(1) /\ Present(2) /\ Present(3) /\ Present(4)

-----------------------------------------------------------------------------
(* Claims about _parse_verdict (SpecVerdict)                               *)

NoHeaderAnywhere ==
    \A l \in 1..Len(vText) : \A name \in SectionNames : \A header \in SectionHeaders[name] :
        ~Occurs(header, vText[l])

\* C17: a non-empty raw verdict text no line of which holds a section-header
\* synonym is parsed into a Verdict whose legal_analysis is the raw text
\* verbatim and whose other five sections are non-empty placeholder texts.
C17_FallbackKeepsRawText ==
    (vVerdict.some /\ vText # EmptyText /\ NoHeaderAnywhere) =>
        /\ vVerdict.sections["legal_analysis"] = vText
        /\ \A name \in SectionNames \ {"legal_analysis"} :
              /\ vVerdict.sections[name] = Placeholder(name)
              /\ vVerdict.sections[name] # EmptyText

\* a text without headers whose lines carry spaces and a section break
C17_Witness ==
    /\ vVerdict.some
    /\ NoHeaderAnywhere
    /\ vText = <<<<" ", "a", " ">>, <<>>, <<"**", "b">>>>
    /\ vVerdict.sections["legal_analysis"] = vText

-----------------------------------------------------------------------------
(* Claims about failed stages of the pipeline (SpecPipeline)               *)

VerdictUnanswered ==
    /\ pRequests # <<>>
    /\ pRequests[Len(pRequests)].kind = "verdict"
    /\ Unanswered(pRequests[Len(pRequests)])

\* C18: when the verdict completion comes back without text, generate_verdict
\* returns no Verdict, the result and the graph of the run are what they were
\* before the call, and the entry of the case is stored with them and with an
\* absent verdict.
C18_NoVerdictKeepsResultAndGraph ==
    [][(ppc = "verdict" /\ VerdictUnanswered') =>
          /\ ~pVerdict'.some
          /\ pResult' = pResult
          /\ pGraph' = pGraph
          /\ AnalysisKey(pCase) \in DOMAIN session_state'
          /\ session_state'[AnalysisKey(pCase)].reasoning_result = pResult
          /\ session_state'[AnalysisKey(pCase)].graph = pGraph
          /\ session_state'[AnalysisKey(pCase)].entities = pEntities
          /\ ~session_state'[AnalysisKey(pCase)].verdict.some]_vars

C18_Witness ==
    /\ VerdictUnanswered
    /\ ppc = "idle"
    /\ AnalysisKey(pCase) \in DOMAIN session_state
    /\ ~session_state[AnalysisKey(pCase)].verdict.some
    /\ session_state[AnalysisKey(pCase)].graph.built
    /\ Len(session_state[AnalysisKey(pCase)].reasoning_result.reasoning_steps) = 4

ExtractionFailed == "extract" \in pDone /\ ~pEntities.some

\* C19: when entity extraction returns nothing or its output fails validation,
\* the run ends there: no retrieval, no applicability, deduction or verdict
\* request, no graph, and no entry stored for the case.
C19_FailedExtractionStopsTheRun ==
    ExtractionFailed =>
        /\ ppc = "idle"
        /\ pDone = {"extract"}
        /\ pArticles = <<>>
        /\ pRequests = <<>>
        /\ ~pResult.some
        /\ ~pGraph.built
        /\ ~pVerdict.some
        /\ AnalysisKey(pCase) \notin DOMAIN session_state

C19_Witness == ExtractionFailed /\ ppc = "idle" /\ pCase = "c1"

-----------------------------------------------------------------------------
(* Claims about the order of the trace (SpecPipeline)                      *)

Rank(number) == CHOOSE k \in 1..Len(pArticles) : pArticles[k] = number

StepsInStageOrder ==
    LET steps == pResult.reasoning_steps
        nf == Len(pEntities.key_facts)
        na == Cardinality(ArticleStepsOf(steps))
    IN  /\ Len(steps) = nf + na + Len(pResult.deductions)
        /\ \A i \in 1..Len(steps) :
              steps[i].step_type =
                 (IF i <= nf THEN "FACT" ELSE IF i <= nf + na THEN "ARTICLE" ELSE "DEDUCTION")
        /\ \A i \in 1..nf :
              steps[i].content = pEntities.key_facts[i] /\ steps[i].confidence = 100
        /\ \A i, j \in ArticleStepsOf(steps) :
              i < j => Rank(steps[i].related_article) < Rank(steps[j].related_article)
        /\ \A i \in 1..Len(pResult.deductions) :
              steps[nf + na + i].content = <<pResult.deductions[i]>>

RequestsInRankOrder ==
    LET asked == RequestsOfKind("applicability")
    IN  /\ Len(asked) <= Len(pArticles)
        /\ \A i \in 1..Len(asked) : asked[i].article = pArticles[i]
        /\ \A i, j \in 1..Len(pRequests) :
              (pRequests[i].kind = "deduction" /\ pRequests[j].kind = "applicability") => j < i
        /\ RequestsOfKind("deduction") # <<>> => Len(asked) = Len(pArticles)

\* C20: the steps of a result are the FACT steps, one per key fact in order and
\* of confidence 1.0, then the ARTICLE steps in retrieval-rank order, then the
\* DEDUCTION steps; the applicability requests go out one provision at a time
\* in rank order, all of them before the deduction request.
C20_StepsAndRequestsInOrder ==
    /\ pResult.some => StepsInStageOrder
    /\ RequestsInRankOrder

C20_Witness ==
    /\ pResult.some
    /\ Len(pEntities.key_facts) = 2
    /\ pArticles = <<2, 1>>
    /\ ArticleStepNumbers(pResult.reasoning_steps) = <<2, 1>>
    /\ Len(pResult.deductions) >= 1
    /\ Len(RequestsOfKind("deduction")) = 1
-----------------------------------------------------------------------------
(* Claims about applicability (SpecApplicability)                          *)

DeductionRequested == RequestsOfKind("deduction") # <<>>

\* the analyses of this run whose confidence is one of the given classes
AnalysesClassified(classes) == SelectSeq(pAnalyses, LAMBDA a : a.confidence \in classes)

\* an analysis as the deduction prompt carries it
Block(a) == [article_number |-> a.article_number, analysis_text |-> a.analysis_text]

\* C21: an analysis is applicable iff its confidence is strictly greater than
\* 0.6, and the deduction prompt is built from exactly the applicable analyses,
\* in order: those classified 0.95, 0.80 or 0.70 are in the prompt, those
\* classified 0.60 or 0.30 are not, and every analysis keeps its ARTICLE step
\* in the trace.
C21_PromptHoldsApplicableAnalyses ==
    /\ \A i \in 1..Len(pAnalyses) :
          /\ pAnalyses[i].is_applicable <=> pAnalyses[i].confidence > 60
          /\ pAnalyses[i].confidence \in {95, 80, 70, 60, 30}
    /\ DeductionRequested =>
          LET prompt == RequestsOfKind("deduction")[1].analyses
              included == AnalysesClassified({95, 80, 70})
          IN  /\ prompt = [i \in 1..Len(included) |-> Block(included[i])]
              /\ \A i \in 1..Len(pAnalyses) :
                    pAnalyses[i].confidence \in {60, 30} =>
                        \A j \in 1..Len(prompt) : prompt[j] # Block(pAnalyses[i])
              /\ ArticleStepNumbers(pSteps)
                    = [i \in 1..Len(pAnalyses) |-> pAnalyses[i].article_number]

C21_Witness ==
    /\ DeductionRequested
    /\ Len(pAnalyses) = 2
    /\ pAnalyses[1].confidence = 60
    /\ pAnalyses[2].confidence = 70
    /\ Len(RequestsOfKind("deduction")[1].analyses) = 1
    /\ ArticleStepNumbers(pResult.reasoning_steps) = pArticles

-----------------------------------------------------------------------------
(* Claims about deduction parsing (SpecDeductions)                         *)

\* a trimmed line opens with a digit, '-' or the bullet
OpensAsListItem(line) == line # <<>> /\ (IsDigit(Head(line)) \/ Head(line) \in {"-", "bullet"})

RECURSIVE DropDigits(_)
DropDigits(str) == IF str # <<>> /\ IsDigit(Head(str)) THEN DropDigits(Tail(str)) ELSE str

\* a trimmed list item without its enumerator: the number with its '.' or ')',
\* or the one '-' or bullet, and the spaces after it
WithoutEnumerator(line) ==
    LET numbered == DropDigits(line)
        rest == IF ~IsDigit(Head(line)) THEN Tail(line)
                ELSE IF numbered # <<>> /\ Head(numbered) \in {".", ")"} THEN Tail(numbered)
                ELSE numbered
    IN  Strip(rest)

RECURSIVE ListItems(_)
\* the list items of a text, each without its enumerator, in line order
ListItems(lines) ==
    IF lines = <<>> THEN <<>>
    ELSE LET line == Strip(Head(lines))
         IN  (IF OpensAsListItem(line) /\ WithoutEnumerator(line) # <<>>
              THEN <<WithoutEnumerator(line)>> ELSE <<>>)
             \o ListItems(Tail(lines))

DeductionsAnswered ==
    /\ RequestsOfKind("deduction") # <<>>
    /\ ~Unanswered(RequestsOfKind("deduction")[1])

\* C22: a line of the answer to the deduction request gives a deduction iff,
\* trimmed, it opens with a digit, '-' or the bullet and is not empty without
\* its enumerator; the deduction is the line without that enumerator and
\* nothing else removed, the deductions keep line order, and the trace has one
\* DEDUCTION step of confidence 0.8 per deduction, in the same order.
C22_DeductionsAreTheListItems ==
    DeductionsAnswered =>
        LET answer == RequestsOfKind("deduction")[1].response.lines
            steps == StepsOfType(pResult.reasoning_steps, "DEDUCTION")
        IN  /\ pResult.deductions = ListItems(answer)
            /\ Len(steps) = Len(pResult.deductions)
            /\ \A i \in 1..Len(steps) :
                  /\ steps[i].content = <<pResult.deductions[i]>>
                  /\ steps[i].confidence = 80

-----------------------------------------------------------------------------
(* Claims about _extract_section (SpecVerdict)                             *)

\* line l of the raw text holds a header synonym of the section
HoldsHeader(name, l) == \E header \in SectionHeaders[name] : Occurs(header, Strip(vText[l]))

\* line l opens like a header: markdown heading, bold marker or list number
HeaderLike(l) == \E prefix \in SectionBreaks : StartsWith(Strip(vText[l]), prefix)

HasHeader(name) == \E l \in 1..Len(vText) : HoldsHeader(name, l)

FirstHeader(name) == CHOOSE l \in 1..Len(vText) :
    HoldsHeader(name, l) /\ \A k \in 1..(l - 1) : ~HoldsHeader(name, k)

\* the first header-like line after the header that holds no synonym of the
\* section, or the end of the text
StopLine(name) ==
    LET stops == {l \in (FirstHeader(name) + 1)..Len(vText) :
                     HeaderLike(l) /\ ~HoldsHeader(name, l)}
    IN  IF stops = {} THEN Len(vText) + 1
        ELSE CHOOSE l \in stops : \A k \in stops : l <= k

\* the non-empty lines between the header and the stop, trimmed
CapturedLines(name) ==
    LET between == SubSeq(vText, FirstHeader(name) + 1, StopLine(name) - 1)
        trimmed == [i \in 1..Len(between) |-> Strip(between[i])]
    IN  SelectSeq(trimmed, LAMBDA line : line # <<>>)

\* C23: the capture of a section starts at the first line that holds one of its
\* header synonyms, takes every following non-empty line, and stops at the
\* first following header-like line that holds none of its synonyms; no later
\* line is part of the section.
C23_SectionIsLinesUpToNextHeader ==
    vVerdict.some =>
        \A name \in SectionNames :
            (HasHeader(name) /\ CapturedLines(name) # <<>>) =>
                vVerdict.sections[name] = CapturedLines(name)

-----------------------------------------------------------------------------
(* Claims about the backoff waits (SpecRetry)                              *)

\* 2^a + 1 seconds for a = 0, 1, 2
BackoffSeconds == <<2, 3, 5>>

\* C24: for every backend, when attempt a (0, 1, 2) fails with a rate-limit
\* signal that is not a quota signal, the wait before the next attempt is
\* exactly 2^a + 1 seconds, and no wait follows the failure of the last attempt.
C24_BackoffWaits ==
    \A i \in 1..Len(rLog) :
        (rLog[i].kind = "rate" /\ ~SignalsQuota(rLog[i].msg)) =>
            IF i < max_retries
            THEN Len(rWaits) >= i /\ rWaits[i] = BackoffSeconds[i]
            ELSE Len(rWaits) < i

-----------------------------------------------------------------------------
(* Claims about get_llm_client (SpecFactory)                               *)

\* C25: whatever the selections of the session were, a call of
\* get_llm_client returns a client of the selected provider and of the
\* selected model (rebuilt when the cached client was built for another
\* selection), and two consecutive calls under one selection return the same
\* instance, the second without rebuilding.
C25_ClientFollowsSelection ==
    fLast.status # "none" =>
        /\ fLast.status = "returned"
        /\ clients[fLast.client].provider_name = fLast.provider
        /\ fLast.model # "" => clients[fLast.client].model_name = fLast.model
        /\ (fPrev.status = "returned" /\ fPrev.fresh
              /\ fPrev.provider = fLast.provider /\ fPrev.model = fLast.model) =>
                  (fLast.client = fPrev.client /\ ~fLast.rebuilt)

-----------------------------------------------------------------------------
(* Claims about the cache key (SpecKeys)                                   *)

\* C26: the string _cache_key hashes is injective on requests: two requests
\* that differ in provider, model, prompt, temperature or max output length
\* never get the same key string.
C26_KeyStringIsInjective ==
    \A i, j \in 1..Len(keyed) :
        keyed[i].request # keyed[j].request => keyed[i].key # keyed[j].key

-----------------------------------------------------------------------------
(* Claims about what the response cache holds (SpecClient)                 *)

\* every entry of a cache is a text a provider returned
OnlyTexts(cache) == \A key \in DOMAIN cache : cache[key].text \in Texts

\* C27: after any sequence of completion calls the response cache, in memory
\* and on disk, holds only non-empty texts of successful provider calls: a call
\* that fails or returns no text leaves no entry, so no request is answered
\* from the cache with no text.
C27_CacheHoldsOnlyReturnedTexts ==
    /\ \A b \in Backends : OnlyTexts(memCache[b]) /\ OnlyTexts(diskCache[b].data)
    /\ (last.done /\ last.calls = 0) => last.result \in Texts

-----------------------------------------------------------------------------
(* Claims about the reach of get_related_articles (SpecRelated)            *)

\* the numbers the corpus holds
InCorpus == {kbArticles[i].article_number : i \in 1..Len(kbArticles)}

\* the numbers an article of the corpus lists as related
RelatedOf(number) ==
    LET related == GetArticleByNumber(kbArticles, number).article.related_articles
    IN  {related[i] : i \in 1..Len(related)}

RECURSIVE Within(_)
\* the provisions of the corpus at most k related_articles hops from the start
Within(k) ==
    IF k = 0 THEN {article_num} \cap InCorpus
    ELSE Within(k - 1)
         \cup {n \in InCorpus : \E m \in Within(k - 1) : n \in RelatedOf(m)}

\* shortest-path distance from the start, for a provision within MaxDepth + 1 hops
Distance(number) == CHOOSE k \in 0..(MaxDepth + 1) :
    number \in Within(k) /\ \A j \in 0..(k - 1) : number \notin Within(j)

\* C28: when the start provision is in the corpus, get_related_articles(start, d)
\* returns exactly the provisions of the corpus whose shortest-path distance
\* from the start along related_articles is between 1 and d, in non-decreasing
\* order of that distance; a related number the corpus does not hold is
\* neither listed nor expanded.
C28_ExactlyTheProvisionsWithinDepth ==
    (kpc = "done" /\ article_num \in InCorpus) =>
        /\ {ResultNumbers[i] : i \in 1..Len(results)} = Within(depth) \ {article_num}
        /\ \A i, j \in 1..Len(results) :
              i < j => Distance(ResultNumbers[i]) <= Distance(ResultNumbers[j])
        /\ \A i \in 1..Len(results) :
              /\ ResultNumbers[i] \in InCorpus
              /\ Distance(ResultNumbers[i]) \in 1..depth
        /\ visited \subseteq Within(depth) \cup {ForeignNumber}

\* provision 3 is listed first by provision 1's unknown neighbour's place and
\* is reached at distance 2 only through provision 2
C28_Witness ==
    /\ kpc = "done"
    /\ article_num = 1
    /\ depth = 2
    /\ kbArticles[1].related_articles = <<4, 2>>
    /\ kbArticles[2].related_articles = <<3, 1>>
    /\ kbArticles[3].related_articles = <<4>>
    /\ ResultNumbers = <<2, 3>>
    /\ Distance(3) = 2


-----------------------------------------------------------------------------
(* Claims about the application script                                      *)

\* C29: rendering the graph tab never faults; while current_case_graph holds
\* no graph the placeholder is shown, and the statistics are read only when a
\* built graph is there
C29_GraphTabDoesNotFault ==
    /\ tabGraph.outcome # "raised"
    /\ tabGraph.outcome # "none" /\ ~tabGraph.built => tabGraph.outcome = "placeholder"
    /\ tabGraph.outcome = "statistics" => tabGraph.built

\* C30: the analysis displayed for the current case was computed from the
\* description of the current case, also when an earlier case had the same id
C30_DisplayedAnalysisIsOfCurrentCase ==
    displayed.some /\ displayed.case_id = current_case.case_id
                   /\ displayed.description = current_case.description
        => displayed.computed_from = displayed.description

====
